---- MODULE Spec2Model ----
(***************************************************************************)
(* Model of the generation dispatch / fallback pipeline of the backend's   *)
(* llmService module.  The repository carries two versions of the module   *)
(* (src/unnamed/part_009, default model local/aakarsh, and                  *)
(* src/unnamed/part_010, default model local/instruct with the Hugging Face *)
(* adapter and tinyLLM); the variable `variant` says which one is loaded.   *)
(*                                                                         *)
(* Strings of the program are sequences of tokens (words, or whole fixed    *)
(* phrases); " " is a whitespace token and "\n\n" the separator that        *)
(* composeContent inserts.                                                  *)
(***************************************************************************)
EXTENDS Integers, Sequences, FiniteSets, TLC

\* ------------------------------------------------------------------ bounds
MaxPromptLen == 2
MaxMessages == 2

\* ------------------------------------------------------------ basic helpers
Range(s) == {s[i] : i \in DOMAIN s}

SeqsUpTo(S, n) == UNION {[1..k -> S] : k \in 0..n}

RECURSIVE TrimLeft(_)
TrimLeft(s) ==
  IF s # <<>> /\ Head(s) = " " THEN TrimLeft(Tail(s)) ELSE s

RECURSIVE TrimRight(_)
TrimRight(s) ==
  IF s # <<>> /\ s[Len(s)] = " " THEN TrimRight(SubSeq(s, 1, Len(s) - 1)) ELSE s

\* String.prototype.trim
Trim(s) == TrimRight(TrimLeft(s))

RECURSIVE Join(_, _)
\* Array.prototype.join over token strings
Join(list, sep) ==
  IF list = <<>> THEN <<>>
  ELSE IF Len(list) = 1 THEN list[1]
  ELSE list[1] \o <<sep>> \o Join(Tail(list), sep)

RECURSIVE Concat(_)
Concat(list) == IF list = <<>> THEN <<>> ELSE Head(list) \o Concat(Tail(list))

RECURSIVE FilterNonEmpty(_)
FilterNonEmpty(list) ==
  IF list = <<>> THEN <<>>
  ELSE IF Head(list) = <<>> THEN FilterNonEmpty(Tail(list))
  ELSE <<Head(list)>> \o FilterNonEmpty(Tail(list))

\* ------------------------------------------------------------ configuration
Variants == {"part_009", "part_010"}

OLLAMA_HOST == "http://localhost:11434"

NoNotice == <<>>

Descriptor(type, notice, vision, requiresKey) ==
  [type |-> type, notice |-> notice, vision |-> vision, requiresKey |-> requiresKey,
   endpoint |-> IF type = "ollama" THEN OLLAMA_HOST ELSE ""]

AVAILABLE_MODELS_009 ==
  [id \in {"xenova/tinyllama-chat", "xenova/phi-1_5", "local/aakarsh",
           "local/assistant-10m", "local/instruct", "ollama/mistral:7b",
           "gpt-3.5-turbo", "gpt-4o", "ollama/llava"} |->
    CASE id = "xenova/tinyllama-chat" ->
           Descriptor("xenova", <<"Runs locally on CPU. No data leaves your device.">>, FALSE, "")
      [] id = "xenova/phi-1_5" ->
           Descriptor("xenova", <<"Runs locally. First use downloads ~1.7GB weights.">>, FALSE, "")
      [] id = "local/aakarsh" ->
           Descriptor("local", <<"Enhanced NLP + neural mesh routing. Entirely local and deterministic.">>, FALSE, "")
      [] id = "local/assistant-10m" ->
           Descriptor("local", <<"Deterministic built-in assistant tuned for small-footprint deployments.">>, FALSE, "")
      [] id = "local/instruct" -> Descriptor("local", NoNotice, FALSE, "")
      [] id = "ollama/mistral:7b" ->
           Descriptor("ollama", <<"Requires Ollama running locally with \"mistral\" model.">>, FALSE, "")
      [] id = "gpt-3.5-turbo" -> Descriptor("openai", NoNotice, FALSE, "OPENAI_API_KEY")
      [] id = "gpt-4o" -> Descriptor("openai", NoNotice, TRUE, "OPENAI_API_KEY")
      [] id = "ollama/llava" ->
           Descriptor("ollama", <<"Requires Ollama running locally with \"llava\" model.">>, TRUE, "")]

AVAILABLE_MODELS_010 ==
  [id \in {"local/instruct", "xenova/tinyllama-chat", "xenova/phi-1_5",
           "ollama/mistral:7b", "huggingface/meta-llama-3.1-8b-instruct",
           "gpt-3.5-turbo", "gpt-4o", "ollama/llava"} |->
    CASE id = "local/instruct" -> Descriptor("local", NoNotice, FALSE, "")
      [] id = "xenova/tinyllama-chat" ->
           Descriptor("xenova", <<"Requires model files to be manually downloaded to backend/models.">>, FALSE, "")
      [] id = "xenova/phi-1_5" ->
           Descriptor("xenova", <<"Requires model files to be manually downloaded to backend/models.">>, FALSE, "")
      [] id = "ollama/mistral:7b" ->
           Descriptor("ollama", <<"Requires Ollama running locally.">>, FALSE, "")
      [] id = "huggingface/meta-llama-3.1-8b-instruct" ->
           Descriptor("huggingface", <<"Requires API Key.">>, FALSE, "HUGGINGFACE_API_KEY")
      [] id = "gpt-3.5-turbo" -> Descriptor("openai", NoNotice, FALSE, "OPENAI_API_KEY")
      [] id = "gpt-4o" -> Descriptor("openai", NoNotice, TRUE, "OPENAI_API_KEY")
      [] id = "ollama/llava" ->
           Descriptor("ollama", <<"Requires Ollama running locally with \"llava\" model.">>, TRUE, "")]

AVAILABLE_MODELS(v) ==
  IF v = "part_009" THEN AVAILABLE_MODELS_009 ELSE AVAILABLE_MODELS_010

defaultModel(v) == IF v = "part_009" THEN "local/aakarsh" ELSE "local/instruct"

\* Keys that AVAILABLE_MODELS[...] finds on Object.prototype: the lookup is
\* truthy although the key is no model, and its .type is undefined.
PrototypeKeys == {"constructor"}

Undefined == "undefined"

\* AVAILABLE_MODELS[modelId] is truthy
Registered(v, modelId) ==
  modelId \in DOMAIN AVAILABLE_MODELS(v) \/ modelId \in PrototypeKeys

\* AVAILABLE_MODELS[modelId]?.type
TypeOf(v, modelId) ==
  IF modelId \in DOMAIN AVAILABLE_MODELS(v) THEN AVAILABLE_MODELS(v)[modelId].type
  ELSE Undefined

\* AVAILABLE_MODELS[modelId]?.notice
NoticeOf(v, modelId) ==
  IF modelId \in DOMAIN AVAILABLE_MODELS(v) THEN AVAILABLE_MODELS(v)[modelId].notice
  ELSE NoNotice

\* ------------------------------------------------------------------ inputs
\* Words of a prompt: an ordinary word, a word of the weaponization rule, a
\* word of the security-attacks rule, and whitespace.
Words == {"hello", "bomb", "exploit", " "}

Prompts == SeqsUpTo(Words, MaxPromptLen)

Roles == {"system", "user"}

\* contents of chat messages: the empty string and one-word strings
MessageContents == SeqsUpTo({"hello", "bomb", " "}, 1)

Messages == [role : Roles, content : MessageContents]

MessageLists == SeqsUpTo(Messages, MaxMessages) \ {<<>>}

\* model ids a caller may send: every registered id of either version, an
\* unknown id, the empty string, an omitted id and a prototype key
UnknownIds == {"nonexistent/model", "", Undefined}

ModelIds ==
  DOMAIN AVAILABLE_MODELS_009 \cup DOMAIN AVAILABLE_MODELS_010
    \cup UnknownIds \cup PrototypeKeys

CallerNotice == <<"caller note">>

\* options.notice as sent by the caller: absent, or one string
CallerOptions ==
  {[notice |-> n, inlineModelNotice |-> Undefined, requestedModel |-> Undefined] :
     n \in {NoNotice, CallerNotice}}

\* ----------------------------------------------------------------- notices
\* normalizeNotices on an array of strings; a lone string s is passed as <<s>>
\* and an absent value as <<NoNotice>>, for which the code returns the same.
RECURSIVE MapTrim(_)
MapTrim(list) ==
  IF list = <<>> THEN <<>> ELSE <<Trim(Head(list))>> \o MapTrim(Tail(list))

normalizeNotices(value) == FilterNonEmpty(MapTrim(value))

prepareNotices(v, modelId, options) ==
  LET inline == normalizeNotices(<<options.notice>>)
      modelNotices == normalizeNotices(<<NoticeOf(v, modelId)>>)
      inlineModelNotice ==
        IF options.inlineModelNotice \in {"true", "false"}
          THEN options.inlineModelNotice = "true"
          ELSE IF v = "part_009" THEN TRUE
               ELSE TypeOf(v, modelId) # "huggingface"
  IN [inline |-> IF modelNotices # <<>> /\ inlineModelNotice
                   THEN inline \o modelNotices ELSE inline,
      extra |-> modelNotices]

composeContent(content, inlineNotices) ==
  IF inlineNotices = <<>> THEN content
  ELSE Join(inlineNotices, "\n\n") \o <<"\n\n">> \o content

\* ------------------------------------------------------------ safety filter
\* each rule: the words its pattern matches, and its reason
LOCAL_SAFETY_RULES ==
  << [pattern |-> {"exploit", "backdoor", "zero-day", "ddos", "botnet", "ransomware"},
      reason |-> "security attacks"],
     [pattern |-> {"bomb", "weapon", "firearm", "munition", "explosive"},
      reason |-> "weaponization content"],
     [pattern |-> {"self-harm", "suicide", "kill myself", "end my life"},
      reason |-> "self-harm support"],
     [pattern |-> {"hate speech", "racial slur", "ethnic slur", "genocide"},
      reason |-> "hate or discriminatory speech"],
     [pattern |-> {"deepfake", "impersonat", "fake identity"},
      reason |-> "impersonation or synthetic identity"] >>

RuleMatches(rule, prompt) == Range(prompt) \cap rule.pattern # {}

runLocalSafetyChecks(prompt) ==
  LET hits == {i \in DOMAIN LOCAL_SAFETY_RULES : RuleMatches(LOCAL_SAFETY_RULES[i], prompt)}
  IN IF prompt = <<>> \/ hits = {}
       THEN [blocked |-> FALSE, reason |-> "", message |-> <<>>]
       ELSE LET first == CHOOSE i \in hits : \A j \in hits : i <= j
                reason == LOCAL_SAFETY_RULES[first].reason
            IN [blocked |-> TRUE, reason |-> reason,
                message |-> <<"I can't help with that request because it violates the",
                              reason, "policy.">>]

\* ------------------------------------------------------------------ results
Result(text, model, modelInfo, loading, notices) ==
  [text |-> text, model |-> model, modelInfo |-> modelInfo,
   loading |-> loading, notices |-> notices, promise |-> FALSE]

\* what the caller reads off a pending Promise taken for a result: every
\* field is undefined
PromiseResult ==
  [text |-> <<>>, model |-> Undefined, modelInfo |-> Undefined,
   loading |-> Undefined, notices |-> <<>>, promise |-> TRUE]

Ev(name, arg) == [ev |-> name, arg |-> arg]

Done(res, tr) == [kind |-> "done", res |-> res, tr |-> tr]

\* ------------------------------------------------------ rule-based adapter
\* generateWithLocalModel's `fallbackModelId`
LocalModelId(v, modelId) ==
  IF TypeOf(v, modelId) = "local" THEN modelId ELSE defaultModel(v)

buildProductSheet(modelId) ==
  IF modelId = "local/aakarsh"
    THEN <<"Production sheet - AAKARSH v1.0.0">>
    ELSE <<"Production sheet - Local Assistant (10M) v1.0.0">>

generateAakarshNeuralResponse(prompt) ==
  IF Trim(prompt) = <<>>
    THEN <<"AAKARSH is primed with richer NLP signals, neural mesh routing, and production guardrails. Ask away!">>
    ELSE <<"AAKARSH blends enhanced NLP with a richer neural mesh for this prompt.", "Keywords:">>
           \o Trim(prompt)

generateLocalNeuralResponse(prompt) ==
  IF Trim(prompt) = <<>>
    THEN <<"Local Assistant (10M) is warmed up with on-device NLP + a compact neural head. Ask away!">>
    ELSE <<"Local Assistant (10M) fused rule-based NLP with a compact neural head for this prompt.", "Focus points:">>
           \o Trim(prompt)

\* local/instruct, first branch chain: the blank-prompt greeting, else the
\* NLP branches, none of which is keyed on a word of Words; <<>> is a
\* response still undefined
ruleBasedReply(prompt) ==
  IF Trim(prompt) = <<>>
    THEN <<"I'm here and ready when you are.">>
    ELSE <<>>

\* the keyword chain that follows for every local model: its first test is
\* `!response && ...`, its `else if` branches do not look at `response`, so a
\* response already chosen is overwritten.  No keyword of the chain (ai+use,
\* llm, rag, deploy, security, monitor, test, database, performance) occurs
\* in a word of Words.
keywordReply(response, prompt) ==
  IF response = <<>> /\ "help" \in Range(prompt)
    THEN <<"I can assist with a wide range of IT and workplace operations:">>
  ELSE IF Len(prompt) < 80
    THEN <<"Here's a quick thought:">> \o Trim(prompt)
           \o <<"-> consider the goal, the data you have, and the user journey you want to support.">>
  ELSE <<"Thanks for the detailed prompt! A concise plan would be:">>

\* tinyLLM.generate: catches every error of its own
tinyLLMGenerate(prompt) ==
  IF Trim(prompt) = <<>>
    THEN <<"I'm here to help. What would you like to know about coding, DevOps, or technical topics?">>
    ELSE <<"tinyLLM reply on">> \o Trim(prompt)

generateWithLocalModel_009(prompt, modelId, options) ==
  LET v == "part_009"
      fallbackModelId == LocalModelId(v, modelId)
      safety == runLocalSafetyChecks(prompt)
      pn == prepareNotices(v, fallbackModelId, options)
      entered == <<Ev("generateWithLocalModel", prompt), Ev("runLocalSafetyChecks", prompt)>>
      analysed == IF Trim(prompt) # <<>> THEN <<Ev("nlpService.analyze", prompt)>> ELSE <<>>
      chosen ==
        IF fallbackModelId = "local/aakarsh" THEN generateAakarshNeuralResponse(prompt)
        ELSE IF fallbackModelId = "local/assistant-10m" THEN generateLocalNeuralResponse(prompt)
        ELSE ruleBasedReply(prompt)
      response == keywordReply(chosen, prompt)
      generator ==
        IF fallbackModelId = "local/aakarsh" THEN "generateAakarshNeuralResponse"
        ELSE IF fallbackModelId = "local/assistant-10m" THEN "generateLocalNeuralResponse"
        ELSE "ruleBasedReply"
  IN IF safety.blocked
       THEN Done(Result(composeContent(safety.message \o <<"\n\n">> \o buildProductSheet(fallbackModelId),
                                       pn.inline),
                        fallbackModelId, fallbackModelId, "false", pn.extra),
                 entered)
       ELSE Done(Result(composeContent(response, pn.inline),
                        fallbackModelId, fallbackModelId, "false", pn.extra),
                 entered \o analysed \o <<Ev(generator, prompt)>>)

\* part_010 never imported nlpService: its own nlpService.analyze call raises
\* a ReferenceError that the surrounding try swallows; tinyLLM.generate runs
\* the analysis itself on a non-blank prompt.
generateWithLocalModel_010(prompt, modelId, options) ==
  LET v == "part_010"
      fallbackModelId == LocalModelId(v, modelId)
      pn == prepareNotices(v, fallbackModelId, options)
      analysed == IF Trim(prompt) # <<>> THEN <<Ev("nlpService.analyze", prompt)>> ELSE <<>>
  IN Done(Result(composeContent(tinyLLMGenerate(prompt), pn.inline),
                 fallbackModelId, fallbackModelId, "false", pn.extra),
          <<Ev("generateWithLocalModel", prompt), Ev("tinyLLM.generate", prompt)>> \o analysed)

generateWithLocalModel(v, prompt, modelId, options) ==
  IF v = "part_009" THEN generateWithLocalModel_009(prompt, modelId, options)
  ELSE generateWithLocalModel_010(prompt, modelId, options)

LocalOptions(requestedModel, notice) ==
  [notice |-> notice, inlineModelNotice |-> Undefined, requestedModel |-> requestedModel]

\* --------------------------------------------------- rule-based chat reply
UserIndexes(messages) == {i \in DOMAIN messages : messages[i].role = "user"}

LastUserIndex(messages) ==
  IF UserIndexes(messages) = {} THEN 0
  ELSE CHOOSE i \in UserIndexes(messages) : \A j \in UserIndexes(messages) : j <= i

RECURSIVE PreviousTopics(_, _)
\* trimmed, non-empty contents of the user messages before index `upto`
PreviousTopics(messages, upto) ==
  IF upto <= 1 THEN <<>>
  ELSE LET m == messages[upto - 1]
           rest == PreviousTopics(messages, upto - 1)
       IN IF m.role = "user" /\ Trim(m.content) # <<>>
            THEN rest \o <<Trim(m.content)>> ELSE rest

LastThree(list) ==
  IF Len(list) <= 3 THEN list ELSE SubSeq(list, Len(list) - 2, Len(list))

chatReply(rawContent) ==
  IF "hello" \in Range(rawContent)
    THEN <<"Hey there! It's good to hear from you. What should we tackle about">>
           \o rawContent \o <<"today?">>
    ELSE <<"Here's how I'd approach">> \o rawContent
           \o <<": clarify the outcome, list the constraints, sketch the smallest experiment, and iterate once you see signal.">>

generateLocalChatResponse(v, messages, modelId, options) ==
  LET fallbackModelId == LocalModelId(v, modelId)
      lastUserIndex == LastUserIndex(messages)
      rawContent == Trim(messages[lastUserIndex].content)
      previousTopics == LastThree(PreviousTopics(messages, lastUserIndex))
      topicLine ==
        IF previousTopics = <<>> THEN <<>>
        ELSE <<"\n\n", "Earlier you also mentioned">> \o Join(previousTopics, ", ")
      finalResponse ==
        chatReply(rawContent) \o topicLine
          \o <<"\n\n", "If you want examples, drafts, or a deeper dive, just ask.">>
      pn == prepareNotices(v, fallbackModelId, options)
  IN IF lastUserIndex = 0 \/ Trim(messages[lastUserIndex].content) = <<>>
       THEN \* `return this.generateWithLocalModel('', ...)`: a result in
            \* part_009, a pending Promise in part_010 (async function)
            LET inner == generateWithLocalModel(v, <<>>, fallbackModelId, options)
            IN IF v = "part_009" THEN inner ELSE Done(PromiseResult, inner.tr)
       ELSE Done(Result(composeContent(finalResponse, pn.inline),
                        fallbackModelId, fallbackModelId, "false", pn.extra),
                 <<Ev("generateLocalChatResponse", rawContent)>>)

formatMessagesAsPrompt(messages, modelId) ==
  LET one(msg) ==
        IF modelId \in {"ollama/mistral:7b"}
          THEN IF msg.role = "system" THEN <<"<s>[INST]">> \o msg.content \o <<"[/INST]">>
               ELSE IF msg.role = "user" THEN <<"[INST]">> \o msg.content \o <<"[/INST]">>
               ELSE msg.content
          ELSE <<msg.role, ":">> \o msg.content
      parts == [i \in DOMAIN messages |-> one(messages[i])]
  IN IF modelId \in {"ollama/mistral:7b"}
       THEN Join(parts, "\n")
       ELSE Join(parts, "\n\n") \o <<"\nassistant:">>

\* ------------------------------------------------------- adapter outcomes
HttpError(status, detail) == [status |-> status, code |-> "HTTP", detail |-> detail]

NetError(code) == [status |-> 0, code |-> code, detail |-> FALSE]

\* the adapter's client was never constructed (no credential in the environment)
MissingCredential == NetError("NO_CREDENTIAL")

\* the upstream answered, but with nothing usable
EmptyResponse == NetError("EMPTY")

NoError == NetError("")

\* errors an outbound call can raise: an HTTP error status (a 400 with or
\* without an error message in the body), connection refused, a timeout of
\* the call, anything else
AdapterErrors ==
  {HttpError(st, FALSE) : st \in {401, 403, 410, 429, 500, 503}}
    \cup {HttpError(400, d) : d \in BOOLEAN}
    \cup {NetError(c) : c \in {"ECONNREFUSED", "ECONNABORTED", "UNKNOWN"}}

\* error.message
ErrMessage(err) ==
  CASE err.code = "HTTP" -> "Request failed with an HTTP error status"
    [] err.code = "ECONNREFUSED" -> "connect ECONNREFUSED"
    [] err.code = "ECONNABORTED" -> "timeout exceeded"
    [] err.code = "EMPTY" -> "Hugging Face router returned an empty response."
    [] OTHER -> "socket hang up"

\* what a successful call hands back: an answer, nothing, or (on-device
\* model) the prompt echoed in front of the continuation
Successes == {"ok", "empty", "echo"}

Throw(err, tr) == [kind |-> "throw", err |-> err, tr |-> tr]

Await(pend, tr) == [kind |-> "await", pend |-> pend, tr |-> tr]

Pending(fn, adapter, modelId, prompt, messages, options) ==
  [fn |-> fn, adapter |-> adapter, modelId |-> modelId, prompt |-> prompt,
   messages |-> messages, options |-> options]

NoPending == Pending("", "", "", <<>>, <<>>, LocalOptions(Undefined, NoNotice))

UsingBuiltIn == "Using built-in assistant instead."

UsingTheBuiltIn == "Using the built-in assistant instead."

FallingBack == "Falling back to the built-in assistant for now."

\* ------------------------------------------------------------- dispatcher
generateText(v, openaiClient, hfKey, prompt, modelId, options) ==
  LET requestedModel == IF Registered(v, modelId) THEN modelId ELSE defaultModel(v)
      type == TypeOf(v, requestedModel)
  IN CASE type = "local" ->
            generateWithLocalModel(v, prompt, requestedModel, LocalOptions(modelId, options.notice))
       [] type = "openai" ->
            IF ~openaiClient THEN Throw(MissingCredential, <<>>)
            ELSE Await(Pending("generateWithOpenAI", "openai", requestedModel, prompt, <<>>, options),
                       <<Ev("openai", prompt)>>)
       [] type = "xenova" ->
            Await(Pending("generateWithXenova", "xenova", requestedModel, prompt, <<>>, options),
                  <<Ev("xenova", prompt)>>)
       [] type = "ollama" ->
            Await(Pending("generateWithOllama", "ollama", requestedModel, prompt, <<>>, options),
                  <<Ev("ollama", prompt)>>)
       [] type = "huggingface" ->
            IF ~hfKey
              THEN generateWithLocalModel(v, prompt, defaultModel(v),
                     LocalOptions(modelId, <<"Hugging Face API key not configured.", UsingBuiltIn>>))
              ELSE Await(Pending("generateWithHuggingFace", "huggingface", requestedModel, prompt, <<>>, options),
                         <<Ev("huggingface", prompt)>>)
       [] OTHER ->
            generateWithLocalModel(v, prompt, defaultModel(v),
              LocalOptions(modelId, <<"Requested model type is not supported.", UsingTheBuiltIn>>))

AllContents(messages) ==
  Join([i \in DOMAIN messages |-> messages[i].content], "\n")

chat(v, openaiClient, hfKey, messages, modelId, options) ==
  LET resolvedModelId == IF Registered(v, modelId) THEN modelId ELSE defaultModel(v)
      type == TypeOf(v, resolvedModelId)
  IN CASE type = "openai" ->
            IF ~openaiClient THEN Throw(MissingCredential, <<>>)
            ELSE Await(Pending("chatWithOpenAI", "openai", resolvedModelId, <<>>, messages, options),
                       <<Ev("openai", AllContents(messages))>>)
       [] type = "local" ->
            IF v = "part_009" \/ resolvedModelId = "local/instruct"
              THEN generateLocalChatResponse(v, messages, resolvedModelId, options)
              ELSE generateWithLocalModel(v, formatMessagesAsPrompt(messages, resolvedModelId),
                                          resolvedModelId, options)
       [] type = "huggingface" /\ v = "part_010" ->
            IF ~hfKey
              THEN generateLocalChatResponse(v, messages, defaultModel(v),
                     LocalOptions(modelId, <<"Hugging Face API key not configured.", UsingBuiltIn>>))
              ELSE Await(Pending("chatWithHuggingFace", "huggingface", resolvedModelId, <<>>, messages, options),
                         <<Ev("huggingface", AllContents(messages))>>)
       [] OTHER ->
            generateText(v, openaiClient, hfKey,
                         formatMessagesAsPrompt(messages, resolvedModelId), resolvedModelId, options)

\* --------------------------------------------------- Hugging Face handlers
handleHuggingFaceTextError(error, prompt, requestedModel) ==
  LET v == "part_010"
      modelNotices == normalizeNotices(<<NoticeOf(v, requestedModel)>>)
      status == error.status
      generic ==
        generateWithLocalModel(v, prompt, defaultModel(v),
          LocalOptions(requestedModel,
            <<"Remote generation failed", ErrMessage(error), UsingTheBuiltIn>>))
  IN CASE status = 503 ->
            Done(Result(<<"Model is currently loading. Please try again in a moment...", "\n\n", FallingBack>>,
                        defaultModel(v), defaultModel(v), "true", modelNotices), <<>>)
       [] status = 429 ->
            Done(Result(<<"Rate limit reached for the selected Hugging Face model.", UsingTheBuiltIn>>,
                        defaultModel(v), defaultModel(v), "false", modelNotices), <<>>)
       [] status \in {401, 403} ->
            Done(Result(<<"Authentication failed for the Hugging Face router.",
                          "Please double-check the HUGGINGFACE_API_KEY value.">>,
                        requestedModel, requestedModel, "false", modelNotices), <<>>)
       [] status = 410 ->
            generateWithLocalModel(v, prompt, defaultModel(v),
              LocalOptions(requestedModel,
                <<"The selected Hugging Face model endpoint returned 410 (gone).", UsingTheBuiltIn>>))
       [] status = 400 /\ error.detail ->
            generateWithLocalModel(v, prompt, defaultModel(v),
              LocalOptions(requestedModel,
                <<"Hugging Face router rejected the request.", UsingTheBuiltIn>>))
       [] OTHER -> generic

handleHuggingFaceChatError(error, messages, requestedModel) ==
  LET v == "part_010"
      status == error.status
      fallback(notice) ==
        generateLocalChatResponse(v, messages, defaultModel(v), LocalOptions(requestedModel, notice))
      loadingFallback ==
        fallback(<<"Model is currently loading. Please try again in a moment...", "\n\n", FallingBack>>)
  IN CASE status = 503 ->
            Done([loadingFallback.res EXCEPT !.loading = "true"], loadingFallback.tr)
       [] status = 429 ->
            fallback(<<"Rate limit reached for the selected Hugging Face model.", UsingTheBuiltIn>>)
       [] status \in {401, 403} ->
            Done(Result(<<"Authentication failed for the Hugging Face router.",
                          "Please double-check the HUGGINGFACE_API_KEY value.">>,
                        requestedModel, requestedModel, "false",
                        normalizeNotices(<<NoticeOf(v, requestedModel)>>)), <<>>)
       [] status = 410 ->
            fallback(<<"The selected Hugging Face model endpoint returned 410 (gone).", UsingTheBuiltIn>>)
       [] status = 400 ->
            fallback(<<"Hugging Face router rejected the request.", UsingTheBuiltIn>>)
       [] OTHER ->
            fallback(<<"Remote generation failed.", UsingTheBuiltIn>>)

\* ------------------------------------------------ adapters, after the call
Outcome(ok, body, err) == [ok |-> ok, body |-> body, err |-> err]

Outcomes ==
  {Outcome(TRUE, b, NoError) : b \in Successes}
    \cup {Outcome(FALSE, "", e) : e \in AdapterErrors}

StartsWith(s, prefix) ==
  Len(prefix) <= Len(s) /\ SubSeq(s, 1, Len(prefix)) = prefix

\* generateWithOpenAI / chatWithOpenAI: every error is logged and rethrown
settleOpenAI(v, pend, out) ==
  LET pn == prepareNotices(v, pend.modelId, pend.options)
  IN IF out.ok
       THEN Done(Result(composeContent(<<"openai answer">>, pn.inline),
                        pend.modelId, pend.modelId, Undefined, pn.extra), <<>>)
       ELSE Throw(out.err, <<>>)

settleXenova(v, pend, out) ==
  LET prompt == pend.prompt
      generatedText ==
        CASE out.body = "ok" -> <<"xenova continuation">>
          [] out.body = "echo" -> prompt \o <<" ", "xenova continuation">>
          [] OTHER -> <<>>
      trimmed ==
        IF StartsWith(generatedText, prompt)
          THEN Trim(SubSeq(generatedText, Len(prompt) + 1, Len(generatedText)))
          ELSE Trim(generatedText)
      resultText ==
        IF trimmed # <<>> THEN trimmed
        ELSE IF Trim(generatedText) # <<>> THEN Trim(generatedText)
        ELSE <<"Local model did not return any output.">>
      pn == prepareNotices(v, pend.modelId, pend.options)
  IN IF out.ok
       THEN Done(Result(composeContent(resultText, pn.inline),
                        pend.modelId, pend.modelId, "false", pn.extra), <<>>)
       ELSE generateWithLocalModel(v, prompt, defaultModel(v),
              LocalOptions(pend.modelId,
                <<"Local transformers.js model", pend.modelId, "failed:",
                  ErrMessage(out.err), UsingBuiltIn>>))

\* the catch block without its ECONNREFUSED case
ollamaFailureNotice_generic(v, modelId, error) ==
  <<"Ollama model", modelId, "failed:", ErrMessage(error), UsingBuiltIn>>

ollamaFailureNotice(v, modelId, error) ==
  IF error.code = "ECONNREFUSED"
    THEN <<"Could not reach Ollama at", AVAILABLE_MODELS(v)[modelId].endpoint,
           "Ensure the Ollama service is running and the model is pulled.", UsingBuiltIn>>
    ELSE <<"Ollama model", modelId, "failed:", ErrMessage(error), UsingBuiltIn>>

settleOllama(v, pend, out) ==
  LET generatedText ==
        IF out.body = "empty" THEN <<"Ollama model did not return any output.">>
        ELSE <<"ollama answer">>
      pn == prepareNotices(v, pend.modelId, pend.options)
  IN IF out.ok
       THEN Done(Result(composeContent(generatedText, pn.inline),
                        pend.modelId, pend.modelId, "false", pn.extra), <<>>)
       ELSE generateWithLocalModel(v, pend.prompt, defaultModel(v),
              LocalOptions(pend.modelId, ollamaFailureNotice(v, pend.modelId, out.err)))

settleHuggingFace(v, pend, out) ==
  LET pn == prepareNotices(v, pend.modelId, pend.options)
      error == IF out.ok THEN EmptyResponse ELSE out.err
  IN IF out.ok /\ out.body # "empty"
       THEN Done(Result(composeContent(<<"hugging face answer">>, pn.inline),
                        pend.modelId, pend.modelId, "false", pn.extra), <<>>)
       ELSE IF pend.fn = "chatWithHuggingFace"
              THEN handleHuggingFaceChatError(error, pend.messages, pend.modelId)
              ELSE handleHuggingFaceTextError(error, pend.prompt, pend.modelId)

Settle(v, pend, out) ==
  CASE pend.adapter = "openai" -> settleOpenAI(v, pend, out)
    [] pend.adapter = "xenova" -> settleXenova(v, pend, out)
    [] pend.adapter = "ollama" -> settleOllama(v, pend, out)
    [] OTHER -> settleHuggingFace(v, pend, out)

\* ------------------------------------------------------------ streaming
chunkSize == 10

RECURSIVE SliceChunks(_, _)
\* for (i = 0; i < text.length; i += chunkSize) yield text.slice(i, i + chunkSize)
SliceChunks(text, k) ==
  IF text = <<>> THEN <<>>
  ELSE IF Len(text) <= k THEN <<text>>
  ELSE <<SubSeq(text, 1, k)>> \o SliceChunks(SubSeq(text, k + 1, Len(text)), k)

\* the content fragments of a native provider stream
NativeChunks(adapter, body) ==
  IF body = "empty" THEN <<>>
  ELSE << <<adapter, "delta 1">>, <<adapter, "delta 2">> >>

\* generateStream up to its first await
generateStream(v, openaiClient, hfKey, input, modelId, options) ==
  LET type == TypeOf(v, modelId)
      messages == << [role |-> "user", content |-> input] >>
  IN IF ~Registered(v, modelId)
       THEN [kind |-> "yield", chunks |-> << <<"Model not found">> >>, tr |-> <<>>]
       ELSE CASE type = "openai" ->
                   IF ~openaiClient THEN Throw(MissingCredential, <<>>)
                   ELSE Await(Pending("streamOpenAI", "openai", modelId, input, messages, options),
                              <<Ev("openai", input)>>)
              [] type = "ollama" ->
                   Await(Pending("streamOllama", "ollama", modelId, input, messages, options),
                         <<Ev("ollama", input)>>)
              [] OTHER ->
                   generateText(v, openaiClient, hfKey, messages[Len(messages)].content, modelId, options)

\* a native stream after the call: every error propagates out of the generator
settleStream(pend, out) ==
  IF out.ok
    THEN [kind |-> "yield", chunks |-> NativeChunks(pend.adapter, out.body), tr |-> <<>>]
    ELSE Throw(out.err, <<>>)

\* --------------------------------------------------------------- the state
VARIABLES
  variant,       \* which version of llmService is loaded
  openaiClient,  \* this.openaiClient was constructed (OPENAI_API_KEY was set)
  hfKey,         \* HUGGINGFACE_API_KEY (or an alias) was set
  pc,            \* "idle", "await", "streaming", "done"
  req,           \* the call being served
  pending,       \* the outbound adapter call the handler is awaiting
  trace,         \* collaborators invoked for this call, in order
  outcome,       \* "none", "result", "thrown", "streamed"
  result,        \* the returned result (outcome = "result")
  failure,       \* the error the adapter call raised, NoError if none
  rest,          \* stream: chunks still to be yielded
  chunks,        \* stream: chunks yielded so far
  \* a function applied to one input
  callArgs,      \* the arguments of the call
  callResult,    \* what the call produced
  \* the HTTP handlers of app.js, one request
  apis,          \* apiOrchestrationService.listApis(): the configured APIs
  hpc,           \* position of the handler
  body,          \* req.body: messages (rewritten in place), model, options
  frames,        \* what res.write / res.json put on the wire, in order
  ended,         \* res.end() or res.json() was called
  connected,     \* the consumer still holds the connection
  log,           \* collaborators invoked and pulls made for this request
  gen,           \* the generator returned by llmService.generateStream
  \* the on-device pipeline cache
  cache,         \* XENOVA_PIPELINES: cache key -> instance (0: no entry)
  built,         \* instances constructed so far, per cache key
  loader,        \* per request: position in loadXenovaPipeline
  \* tinyLLM
  context,       \* tinyLLM.context
  \* apiOrchestrationService and its routes
  configs,       \* this.configs: the stored configurations, in insertion order
  sent,          \* the body of the last response sent to a client
  \* the connection gauge
  activeConnections,  \* the value of the activeConnections gauge
  conns          \* per request: where the request and its response are

llmVars == <<variant, openaiClient, hfKey, pc, req, pending, trace, outcome,
             result, failure, rest, chunks>>

pureVars == <<callArgs, callResult>>

httpVars == <<apis, hpc, body, frames, ended, connected, log, gen>>

cacheVars == <<cache, built, loader>>

tinyVars == <<context>>

orchVars == <<configs, sent>>

gaugeVars == <<activeConnections, conns>>

appVars == <<orchVars, gaugeVars>>

vars == <<llmVars, pureVars, httpVars, cacheVars, tinyVars, appVars>>

env == <<variant, openaiClient, hfKey>>

NoResult == Result(<<>>, "", "", Undefined, <<>>)

Request(entry, modelId, prompt, messages, options) ==
  [entry |-> entry, modelId |-> modelId, prompt |-> prompt,
   messages |-> messages, options |-> options]

NoRequest == Request("", "", <<>>, <<>>, LocalOptions(Undefined, NoNotice))

\* --- the parts of the state a specification does not exercise stay at rest
NoArgs == [fn |-> "none"]

NoCallResult == [kind |-> "none"]

PureIdle == callArgs = NoArgs /\ callResult = NoCallResult

NoBody == [route |-> "", sent |-> <<>>, messages |-> <<>>, searchMode |-> "auto"]

NoGen == [left |-> 0, open |-> FALSE]

HttpIdle ==
  /\ apis = <<>>
  /\ hpc = "off"
  /\ body = NoBody
  /\ frames = <<>>
  /\ ended = FALSE
  /\ connected = FALSE
  /\ log = <<>>
  /\ gen = NoGen

\* cache keys of the registry's transformers.js models
CacheKeys == {"Xenova/tinyllama-chat", "Xenova/phi-1_5"}

\* requests that may be loading a pipeline at the same time
MaxLoaders == 2

Loaders == 1..MaxLoaders

IdleLoader == [at |-> "idle", key |-> "", got |-> 0]

CacheIdle ==
  /\ cache = [k \in CacheKeys |-> 0]
  /\ built = [k \in CacheKeys |-> 0]
  /\ loader = [r \in Loaders |-> IdleLoader]

TinyIdle == context = <<>>

NoBodySent == [status |-> 0]

OrchIdle ==
  /\ configs = <<>>
  /\ sent = NoBodySent

\* requests received over the life of the process
MaxRequests == 3

Requests == 1..MaxRequests

GaugeIdle ==
  /\ activeConnections = 0
  /\ conns = [r \in Requests |-> "none"]

AppIdle == OrchIdle /\ GaugeIdle

EnvIdle == variant = "part_009" /\ openaiClient = FALSE /\ hfKey = FALSE

DispatcherIdle ==
  /\ pc = "idle"
  /\ req = NoRequest
  /\ pending = NoPending
  /\ trace = <<>>
  /\ outcome = "none"
  /\ result = NoResult
  /\ failure = NoError
  /\ rest = <<>>
  /\ chunks = <<>>

others == <<pureVars, httpVars, cacheVars, tinyVars, appVars>>

Init ==
  /\ variant \in Variants
  /\ openaiClient \in BOOLEAN
  /\ hfKey \in BOOLEAN
  /\ variant = "part_009" => ~hfKey   \* part_009 never reads the key
  /\ DispatcherIdle /\ AppIdle
  /\ PureIdle /\ HttpIdle /\ CacheIdle /\ TinyIdle

\* the handler ran to a return, a throw, or its first await
Advance(step, err) ==
  /\ trace' = trace \o step.tr
  /\ failure' = IF step.kind = "throw" THEN step.err ELSE err
  /\ CASE step.kind = "done" ->
            /\ result' = step.res
            /\ pending' = NoPending
            /\ IF req'.entry = "generateStream"
                 THEN \* simulated stream of the generated text
                      LET cs == SliceChunks(step.res.text, chunkSize)
                      IN /\ rest' = cs
                         /\ outcome' = "result"
                         /\ pc' = IF cs = <<>> THEN "done" ELSE "streaming"
                 ELSE /\ rest' = <<>>
                      /\ outcome' = "result"
                      /\ pc' = "done"
       [] step.kind = "throw" ->
            /\ outcome' = "thrown"
            /\ pending' = NoPending
            /\ pc' = "done"
            /\ UNCHANGED <<result, rest>>
       [] step.kind = "await" ->
            /\ pending' = step.pend
            /\ pc' = "await"
            /\ UNCHANGED <<outcome, result, rest>>
       [] OTHER -> \* "yield": a generator that yields without a result
            /\ rest' = step.chunks
            /\ outcome' = "streamed"
            /\ pending' = NoPending
            /\ pc' = IF step.chunks = <<>> THEN "done" ELSE "streaming"
            /\ UNCHANGED result

CallGenerateText ==
  /\ pc = "idle"
  /\ \E prompt \in Prompts, modelId \in ModelIds, options \in CallerOptions :
       /\ req' = Request("generateText", modelId, prompt, <<>>, options)
       /\ \E step \in {generateText(variant, openaiClient, hfKey, prompt, modelId, options)} :
            Advance(step, NoError)
  /\ UNCHANGED <<env, chunks, others>>

CallChat ==
  /\ pc = "idle"
  /\ \E messages \in MessageLists, modelId \in ModelIds, options \in CallerOptions :
       /\ req' = Request("chat", modelId, <<>>, messages, options)
       /\ \E step \in {chat(variant, openaiClient, hfKey, messages, modelId, options)} :
            Advance(step, NoError)
  /\ UNCHANGED <<env, chunks, others>>

CallGenerateStream ==
  /\ pc = "idle"
  /\ \E input \in Prompts, modelId \in ModelIds, options \in CallerOptions :
       /\ req' = Request("generateStream", modelId, input, <<>>, options)
       /\ \E step \in {generateStream(variant, openaiClient, hfKey, input, modelId, options)} :
            Advance(step, NoError)
  /\ UNCHANGED <<env, chunks, others>>

\* the awaited adapter call resolves or rejects; the adapter's own code
\* (its try/catch, the fallback it calls) runs to completion
AdapterSettles ==
  /\ pc = "await"
  /\ \E out \in Outcomes :
       /\ out.body = "echo" => pending.adapter = "xenova"
       \* the on-device pipeline makes no network call: it fails with a plain Error
       /\ (pending.adapter = "xenova" /\ ~out.ok) => out.err = NetError("UNKNOWN")
       /\ req' = req
       /\ \E step \in {IF pending.fn \in {"streamOpenAI", "streamOllama"}
                          THEN settleStream(pending, out)
                          ELSE Settle(variant, pending, out)} :
            Advance(step, IF out.ok /\ pending.adapter = "huggingface" /\ out.body = "empty"
                            THEN EmptyResponse ELSE out.err)
  /\ UNCHANGED <<env, chunks, others>>

StreamYield ==
  /\ pc = "streaming"
  /\ chunks' = Append(chunks, Head(rest))
  /\ rest' = Tail(rest)
  /\ pc' = IF Tail(rest) = <<>> THEN "done" ELSE "streaming"
  /\ UNCHANGED <<env, req, pending, trace, outcome, result, failure, others>>

\* the caller has its answer; the service is ready for the next call
Return ==
  /\ pc = "done"
  /\ pc' = "idle"
  /\ req' = NoRequest
  /\ pending' = NoPending
  /\ trace' = <<>>
  /\ outcome' = "none"
  /\ result' = NoResult
  /\ failure' = NoError
  /\ rest' = <<>>
  /\ chunks' = <<>>
  /\ UNCHANGED <<env, others>>

Next ==
  \/ CallGenerateText
  \/ CallChat
  \/ CallGenerateStream
  \/ AdapterSettles
  \/ StreamYield
  \/ Return

Spec == Init /\ [][Next]_vars

\* -------------------------------- rule-based adapter, any value as prompt
\* JavaScript values a caller can hand in as `prompt`
JsString(s) == [type |-> "string", truthy |-> s # <<>>, str |-> s]

JsUndefined == [type |-> "undefined", truthy |-> FALSE, str |-> <<>>]

JsNull == [type |-> "null", truthy |-> FALSE, str |-> <<>>]

JsNumber(n) == [type |-> "number", truthy |-> n # 0, str |-> <<>>]

JsObject == [type |-> "object", truthy |-> TRUE, str |-> <<>>]

PromptValues ==
  {JsString(p) : p \in Prompts}
    \cup {JsUndefined, JsNull, JsNumber(0), JsNumber(42), JsObject}

TypeError == NetError("TypeError")

\* generateWithLocalModel(prompt = '', modelId = this.defaultModel, options)
\* on a value of any type:
\*  - undefined takes the default parameter '';
\*  - `(prompt || '').toLowerCase()` raises a TypeError on a truthy non-string;
\*  - a falsy non-string passes the safety filter and the NLP guard; part_009
\*    then reaches `prompt.length < 80`, a TypeError on null and false on a
\*    number; part_010 hands the value to tinyLLM.generate, which treats a
\*    falsy value as the empty prompt.
generateWithLocalModelOf(v, value, modelId, options) ==
  LET fallbackModelId == LocalModelId(v, modelId)
      pn == prepareNotices(v, fallbackModelId, options)
      generator ==
        IF fallbackModelId = "local/aakarsh" THEN "generateAakarshNeuralResponse"
        ELSE IF fallbackModelId = "local/assistant-10m" THEN "generateLocalNeuralResponse"
        ELSE "ruleBasedReply"
  IN CASE value.type = "string" -> generateWithLocalModel(v, value.str, modelId, options)
       [] value.type = "undefined" -> generateWithLocalModel(v, <<>>, modelId, options)
       [] value.truthy -> Throw(TypeError, <<Ev("generateWithLocalModel", <<>>)>>)
       [] v = "part_010" -> generateWithLocalModel_010(<<>>, modelId, options)
       [] value.type = "null" ->
            Throw(TypeError, <<Ev("generateWithLocalModel", <<>>), Ev("runLocalSafetyChecks", <<>>),
                               Ev(generator, <<>>)>>)
       [] OTHER ->
            Done(Result(composeContent(<<"Thanks for the detailed prompt! A concise plan would be:">>,
                                       pn.inline),
                        fallbackModelId, fallbackModelId, "false", pn.extra),
                 <<Ev("generateWithLocalModel", <<>>), Ev("runLocalSafetyChecks", <<>>),
                   Ev(generator, <<>>)>>)

LocalModelIds == {"local/aakarsh", "local/assistant-10m", "local/instruct", Undefined}

LocalArgs ==
  {[fn |-> "generateWithLocalModel", prompt |-> pv, modelId |-> m,
    options |-> LocalOptions(Undefined, n)] :
     pv \in PromptValues, m \in LocalModelIds, n \in {NoNotice, CallerNotice}}

LocalInit ==
  /\ variant \in Variants
  /\ openaiClient = FALSE /\ hfKey = FALSE
  /\ DispatcherIdle /\ AppIdle
  /\ callArgs \in LocalArgs
  /\ callResult = NoCallResult
  /\ HttpIdle /\ CacheIdle /\ TinyIdle

ApplyLocalModel ==
  /\ callArgs.fn = "generateWithLocalModel"
  /\ callResult = NoCallResult
  /\ callResult' = generateWithLocalModelOf(variant, callArgs.prompt, callArgs.modelId,
                                            callArgs.options)
  /\ UNCHANGED <<llmVars, callArgs, httpVars, cacheVars, tinyVars, appVars>>

LocalNext == ApplyLocalModel

LocalSpec == LocalInit /\ [][LocalNext]_vars

\* ------------------------------------------- intentDetector.detectIntent
\* a string is the sequence of its characters; the table of intentDetector.js
\* in declaration order
INTENT_CATEGORIES ==
  <<
     [key |-> "CHAT", priority |-> 1,
      keywords |-> <<
        <<"h", "e", "l", "l", "o">>, <<"h", "i">>,
        <<"h", "o", "w", " ", "a", "r", "e", " ", "y", "o", "u">>,
        <<"w", "h", "a", "t", " ", "i", "s">>, <<"e", "x", "p", "l", "a", "i", "n">>,
        <<"t", "e", "l", "l", " ", "m", "e">>, <<"d", "e", "s", "c", "r", "i", "b", "e">>,
        <<"c", "h", "a", "t">> >>],
     [key |-> "CODE", priority |-> 3,
      keywords |-> <<
        <<"c", "o", "d", "e">>, <<"f", "u", "n", "c", "t", "i", "o", "n">>,
        <<"p", "r", "o", "g", "r", "a", "m">>, <<"d", "e", "b", "u", "g">>,
        <<"e", "r", "r", "o", "r">>, <<"s", "y", "n", "t", "a", "x">>,
        <<"p", "y", "t", "h", "o", "n">>, <<"j", "a", "v", "a", "s", "c", "r", "i", "p", "t">>,
        <<"j", "a", "v", "a">>, <<"a", "l", "g", "o", "r", "i", "t", "h", "m">>,
        <<"a", "p", "i">>, <<"d", "a", "t", "a", "b", "a", "s", "e">> >>],
     [key |-> "DOCUMENT_SEARCH", priority |-> 2,
      keywords |-> <<
        <<"s", "e", "a", "r", "c", "h">>, <<"f", "i", "n", "d">>,
        <<"d", "o", "c", "u", "m", "e", "n", "t">>, <<"f", "i", "l", "e">>,
        <<"k", "n", "o", "w", "l", "e", "d", "g", "e">>, <<"l", "o", "o", "k", "u", "p">>,
        <<"r", "e", "t", "r", "i", "e", "v", "e">>, <<"w", "h", "e", "r", "e", " ", "i", "s">>,
        <<"s", "h", "o", "w", " ", "m", "e">> >>],
     [key |-> "ANALYSIS", priority |-> 2,
      keywords |-> <<
        <<"a", "n", "a", "l", "y", "z", "e">>, <<"a", "n", "a", "l", "y", "s", "i", "s">>,
        <<"s", "t", "a", "t", "i", "s", "t", "i", "c", "s">>, <<"d", "a", "t", "a">>,
        <<"c", "h", "a", "r", "t">>, <<"g", "r", "a", "p", "h">>, <<"t", "r", "e", "n", "d">>,
        <<"c", "o", "m", "p", "a", "r", "e">>, <<"e", "v", "a", "l", "u", "a", "t", "e">> >>],
     [key |-> "GITHUB", priority |-> 4,
      keywords |-> <<
        <<"g", "i", "t", "h", "u", "b">>, <<"r", "e", "p", "o", "s", "i", "t", "o", "r", "y">>,
        <<"r", "e", "p", "o">>, <<"c", "o", "m", "m", "i", "t">>,
        <<"p", "u", "l", "l", " ", "r", "e", "q", "u", "e", "s", "t">>,
        <<"i", "s", "s", "u", "e">>, <<"b", "r", "a", "n", "c", "h">>, <<"f", "o", "r", "k">> >>],
     [key |-> "DEVOPS", priority |-> 3,
      keywords |-> <<
        <<"d", "e", "p", "l", "o", "y">>, <<"d", "e", "p", "l", "o", "y", "m", "e", "n", "t">>,
        <<"d", "o", "c", "k", "e", "r">>, <<"c", "o", "n", "t", "a", "i", "n", "e", "r">>,
        <<"k", "u", "b", "e", "r", "n", "e", "t", "e", "s">>, <<"k", "8", "s">>,
        <<"c", "i", "/", "c", "d">>, <<"p", "i", "p", "e", "l", "i", "n", "e">>,
        <<"b", "u", "i", "l", "d">>, <<"j", "e", "n", "k", "i", "n", "s">>,
        <<"g", "i", "t", "h", "u", "b", " ", "a", "c", "t", "i", "o", "n", "s">>,
        <<"g", "i", "t", "l", "a", "b">>, <<"t", "e", "r", "r", "a", "f", "o", "r", "m">>,
        <<"a", "n", "s", "i", "b", "l", "e">>,
        <<"i", "n", "f", "r", "a", "s", "t", "r", "u", "c", "t", "u", "r", "e">> >>],
     [key |-> "SECURITY", priority |-> 4,
      keywords |-> <<
        <<"s", "e", "c", "u", "r", "i", "t", "y">>,
        <<"v", "u", "l", "n", "e", "r", "a", "b", "i", "l", "i", "t", "y">>, <<"c", "v", "e">>,
        <<"a", "u", "t", "h", "e", "n", "t", "i", "c", "a", "t", "i", "o", "n">>,
        <<"a", "u", "t", "h", "o", "r", "i", "z", "a", "t", "i", "o", "n">>,
        <<"o", "a", "u", "t", "h">>, <<"j", "w", "t">>, <<"s", "s", "l">>, <<"t", "l", "s">>,
        <<"e", "n", "c", "r", "y", "p", "t", "i", "o", "n">>,
        <<"p", "e", "n", "e", "t", "r", "a", "t", "i", "o", "n">>, <<"a", "u", "d", "i", "t">>,
        <<"c", "o", "m", "p", "l", "i", "a", "n", "c", "e">>, <<"g", "d", "p", "r">>,
        <<"h", "i", "p", "a", "a">>, <<"f", "i", "r", "e", "w", "a", "l", "l">>,
        <<"i", "n", "t", "r", "u", "s", "i", "o", "n">> >>],
     [key |-> "MONITORING", priority |-> 3,
      keywords |-> <<
        <<"m", "o", "n", "i", "t", "o", "r">>,
        <<"m", "o", "n", "i", "t", "o", "r", "i", "n", "g">>, <<"l", "o", "g">>,
        <<"l", "o", "g", "s">>, <<"m", "e", "t", "r", "i", "c">>,
        <<"m", "e", "t", "r", "i", "c", "s">>, <<"a", "l", "e", "r", "t">>,
        <<"a", "l", "e", "r", "t", "i", "n", "g">>,
        <<"p", "r", "o", "m", "e", "t", "h", "e", "u", "s">>,
        <<"g", "r", "a", "f", "a", "n", "a">>, <<"e", "l", "k">>,
        <<"s", "p", "l", "u", "n", "k">>, <<"a", "p", "m">>, <<"t", "r", "a", "c", "e">>,
        <<"o", "b", "s", "e", "r", "v", "a", "b", "i", "l", "i", "t", "y">>,
        <<"d", "a", "s", "h", "b", "o", "a", "r", "d">> >>],
     [key |-> "INCIDENT", priority |-> 5,
      keywords |-> <<
        <<"i", "n", "c", "i", "d", "e", "n", "t">>, <<"o", "u", "t", "a", "g", "e">>,
        <<"d", "o", "w", "n", "t", "i", "m", "e">>,
        <<"t", "r", "o", "u", "b", "l", "e", "s", "h", "o", "o", "t">>,
        <<"d", "e", "b", "u", "g">>, <<"f", "i", "x">>, <<"b", "r", "o", "k", "e", "n">>,
        <<"n", "o", "t", " ", "w", "o", "r", "k", "i", "n", "g">>, <<"c", "r", "a", "s", "h">>,
        <<"f", "a", "i", "l", "u", "r", "e">>,
        <<"r", "o", "o", "t", " ", "c", "a", "u", "s", "e">>,
        <<"p", "o", "s", "t", "m", "o", "r", "t", "e", "m">>,
        <<"5", "0", "0", " ", "e", "r", "r", "o", "r">>,
        <<"4", "0", "4", " ", "e", "r", "r", "o", "r">>, <<"t", "i", "m", "e", "o", "u", "t">> >>],
     [key |-> "DATABASE", priority |-> 3,
      keywords |-> <<
        <<"d", "a", "t", "a", "b", "a", "s", "e">>, <<"s", "q", "l">>,
        <<"q", "u", "e", "r", "y">>, <<"p", "o", "s", "t", "g", "r", "e", "s">>,
        <<"p", "o", "s", "t", "g", "r", "e", "s", "q", "l">>, <<"m", "y", "s", "q", "l">>,
        <<"m", "o", "n", "g", "o", "d", "b">>, <<"r", "e", "d", "i", "s">>,
        <<"s", "c", "h", "e", "m", "a">>, <<"m", "i", "g", "r", "a", "t", "i", "o", "n">>,
        <<"b", "a", "c", "k", "u", "p">>, <<"r", "e", "s", "t", "o", "r", "e">>,
        <<"i", "n", "d", "e", "x">>, <<"o", "p", "t", "i", "m", "i", "z", "e">>,
        <<"o", "r", "m">>, <<"p", "r", "i", "s", "m", "a">>,
        <<"s", "e", "q", "u", "e", "l", "i", "z", "e">> >>],
     [key |-> "DOCUMENTATION", priority |-> 2,
      keywords |-> <<
        <<"d", "o", "c", "u", "m", "e", "n", "t", "a", "t", "i", "o", "n">>,
        <<"d", "o", "c", "u", "m", "e", "n", "t">>, <<"r", "e", "a", "d", "m", "e">>,
        <<"w", "i", "k", "i">>, <<"g", "u", "i", "d", "e">>,
        <<"t", "u", "t", "o", "r", "i", "a", "l">>, <<"h", "o", "w", "-", "t", "o">>,
        <<"m", "a", "n", "u", "a", "l">>, <<"a", "p", "i", " ", "d", "o", "c">>,
        <<"s", "w", "a", "g", "g", "e", "r">>, <<"o", "p", "e", "n", "a", "p", "i">>,
        <<"r", "u", "n", "b", "o", "o", "k">>, <<"p", "l", "a", "y", "b", "o", "o", "k">> >>],
     [key |-> "TESTING", priority |-> 3,
      keywords |-> <<
        <<"t", "e", "s", "t">>, <<"t", "e", "s", "t", "i", "n", "g">>, <<"j", "e", "s", "t">>,
        <<"m", "o", "c", "h", "a">>, <<"p", "y", "t", "e", "s", "t">>,
        <<"j", "u", "n", "i", "t">>, <<"s", "e", "l", "e", "n", "i", "u", "m">>,
        <<"c", "y", "p", "r", "e", "s", "s">>, <<"c", "o", "v", "e", "r", "a", "g", "e">>,
        <<"m", "o", "c", "k">>, <<"s", "t", "u", "b">>, <<"q", "a">>,
        <<"q", "u", "a", "l", "i", "t", "y">>, <<"e", "2", "e">>,
        <<"i", "n", "t", "e", "g", "r", "a", "t", "i", "o", "n", " ", "t", "e", "s", "t">>,
        <<"u", "n", "i", "t", " ", "t", "e", "s", "t">> >>],
     [key |-> "PERFORMANCE", priority |-> 3,
      keywords |-> <<
        <<"p", "e", "r", "f", "o", "r", "m", "a", "n", "c", "e">>,
        <<"o", "p", "t", "i", "m", "i", "z", "e">>,
        <<"o", "p", "t", "i", "m", "i", "z", "a", "t", "i", "o", "n">>, <<"s", "l", "o", "w">>,
        <<"l", "a", "t", "e", "n", "c", "y">>,
        <<"t", "h", "r", "o", "u", "g", "h", "p", "u", "t">>, <<"c", "a", "c", "h", "e">>,
        <<"c", "a", "c", "h", "i", "n", "g">>, <<"s", "c", "a", "l", "e">>,
        <<"s", "c", "a", "l", "a", "b", "i", "l", "i", "t", "y">>,
        <<"p", "r", "o", "f", "i", "l", "e">>, <<"p", "r", "o", "f", "i", "l", "i", "n", "g">>,
        <<"b", "o", "t", "t", "l", "e", "n", "e", "c", "k">>,
        <<"m", "e", "m", "o", "r", "y", " ", "l", "e", "a", "k">> >>],
     [key |-> "PROJECT_MANAGEMENT", priority |-> 2,
      keywords |-> <<
        <<"s", "p", "r", "i", "n", "t">>, <<"s", "c", "r", "u", "m">>,
        <<"a", "g", "i", "l", "e">>, <<"k", "a", "n", "b", "a", "n">>,
        <<"b", "a", "c", "k", "l", "o", "g">>, <<"s", "t", "o", "r", "y">>,
        <<"e", "p", "i", "c">>,
        <<"r", "e", "t", "r", "o", "s", "p", "e", "c", "t", "i", "v", "e">>,
        <<"s", "t", "a", "n", "d", "u", "p">>, <<"p", "l", "a", "n", "n", "i", "n", "g">>,
        <<"e", "s", "t", "i", "m", "a", "t", "i", "o", "n">>,
        <<"v", "e", "l", "o", "c", "i", "t", "y">>, <<"j", "i", "r", "a">>,
        <<"t", "i", "c", "k", "e", "t">> >>],
     [key |-> "CODE_REVIEW", priority |-> 3,
      keywords |-> <<
        <<"c", "o", "d", "e", " ", "r", "e", "v", "i", "e", "w">>,
        <<"r", "e", "v", "i", "e", "w">>, <<"r", "e", "f", "a", "c", "t", "o", "r">>,
        <<"r", "e", "f", "a", "c", "t", "o", "r", "i", "n", "g">>,
        <<"c", "l", "e", "a", "n", " ", "c", "o", "d", "e">>,
        <<"b", "e", "s", "t", " ", "p", "r", "a", "c", "t", "i", "c", "e">>,
        <<"d", "e", "s", "i", "g", "n", " ", "p", "a", "t", "t", "e", "r", "n">>,
        <<"s", "o", "l", "i", "d">>, <<"d", "r", "y">>,
        <<"c", "o", "d", "e", " ", "s", "m", "e", "l", "l">>,
        <<"t", "e", "c", "h", "n", "i", "c", "a", "l", " ", "d", "e", "b", "t">>,
        <<"l", "i", "n", "t">>, <<"l", "i", "n", "t", "i", "n", "g">> >>],
     [key |-> "SYSTEM_ADMIN", priority |-> 3,
      keywords |-> <<
        <<"a", "d", "m", "i", "n">>,
        <<"a", "d", "m", "i", "n", "i", "s", "t", "r", "a", "t", "o", "r">>,
        <<"u", "s", "e", "r", " ", "m", "a", "n", "a", "g", "e", "m", "e", "n", "t">>,
        <<"p", "e", "r", "m", "i", "s", "s", "i", "o", "n">>, <<"r", "o", "l", "e">>,
        <<"s", "e", "r", "v", "e", "r">>, <<"n", "g", "i", "n", "x">>,
        <<"a", "p", "a", "c", "h", "e">>, <<"s", "y", "s", "t", "e", "m", "d">>,
        <<"c", "r", "o", "n">>, <<"b", "a", "c", "k", "u", "p">>,
        <<"m", "a", "i", "n", "t", "e", "n", "a", "n", "c", "e">>,
        <<"c", "o", "n", "f", "i", "g", "u", "r", "a", "t", "i", "o", "n">>,
        <<"s", "e", "t", "u", "p">> >>],
     [key |-> "WEB_SEARCH", priority |-> 5,
      keywords |-> <<
        <<"s", "e", "a", "r", "c", "h">>, <<"g", "o", "o", "g", "l", "e">>,
        <<"b", "i", "n", "g">>, <<"l", "a", "t", "e", "s", "t">>, <<"n", "e", "w", "s">>,
        <<"c", "u", "r", "r", "e", "n", "t">>, <<"w", "e", "a", "t", "h", "e", "r">>,
        <<"p", "r", "i", "c", "e">>, <<"s", "t", "o", "c", "k">>,
        <<"w", "h", "o", " ", "i", "s">>, <<"w", "h", "a", "t", " ", "i", "s">>,
        <<"w", "h", "e", "n", " ", "i", "s">>,
        <<"f", "i", "n", "d", " ", "o", "n", "l", "i", "n", "e">>,
        <<"l", "o", "o", "k", " ", "u", "p">> >>],
     [key |-> "IMAGE_GENERATION", priority |-> 5,
      keywords |-> <<
        <<"g", "e", "n", "e", "r", "a", "t", "e", " ", "i", "m", "a", "g", "e">>,
        <<"c", "r", "e", "a", "t", "e", " ", "i", "m", "a", "g", "e">>, <<"d", "r", "a", "w">>,
        <<"p", "i", "c", "t", "u", "r", "e", " ", "o", "f">>,
        <<"i", "m", "a", "g", "e", " ", "o", "f">>, <<"p", "h", "o", "t", "o", " ", "o", "f">>,
        <<"i", "l", "l", "u", "s", "t", "r", "a", "t", "e">>, <<"p", "a", "i", "n", "t">> >>]
  >>

\* String.prototype.toLowerCase, on the capitals that occur in the inputs
LowerCase(c) ==
  CASE c = "H" -> "h"
    [] c = "D" -> "d"
    [] OTHER -> c

toLowerCase(str) == [i \in DOMAIN str |-> LowerCase(str[i])]

\* String.prototype.includes
includes(str, part) ==
  \E o \in 0..(Len(str) - Len(part)) : SubSeq(str, o + 1, o + Len(part)) = part

RECURSIVE ScoreFrom(_, _, _)
\* for (const keyword of intent.keywords) if (input.includes(keyword)) score += intent.priority
ScoreFrom(category, input, k) ==
  IF k > Len(category.keywords) THEN 0
  ELSE (IF includes(input, category.keywords[k]) THEN category.priority ELSE 0)
         + ScoreFrom(category, input, k + 1)

Score(category, input) == ScoreFrom(category, input, 1)

Better_orEqual(score, maxScore) == score >= maxScore

\* if (score > maxScore)
Better(score, maxScore) == score > maxScore

RECURSIVE BestIntent(_, _, _, _)
\* the loop `if (score > maxScore) { maxScore = score; detectedIntent = key }`
BestIntent(input, i, detected, maxScore) ==
  IF i > Len(INTENT_CATEGORIES) THEN detected
  ELSE IF Better(Score(INTENT_CATEGORIES[i], input), maxScore)
         THEN BestIntent(input, i + 1, INTENT_CATEGORIES[i].key, Score(INTENT_CATEGORIES[i], input))
         ELSE BestIntent(input, i + 1, detected, maxScore)

detectIntent(userInput) == BestIntent(toLowerCase(userInput), 1, "CHAT", 0)

\* the characters of a message content of UserContents
Letters(word) ==
  CASE word = "hello" -> <<"h", "e", "l", "l", "o">>
    [] word = "news" -> <<"n", "e", "w", "s">>
    [] word = "draw" -> <<"d", "r", "a", "w">>
    [] OTHER -> <<>>

Spell(content) == Join([i \in DOMAIN content |-> Letters(content[i])], " ")

\* inputs of detectIntent: up to MaxWords words, a blank between them
MaxWords == 2

Vocabulary ==
  {<<"H", "e", "l", "l", "o">>,
   <<"s", "e", "a", "r", "c", "h">>,
   <<"d", "e", "b", "u", "g">>,
   <<"D", "r", "a", "w">>,
   <<"n", "e", "w", "s">>,
   <<"c", "r", "a", "s", "h">>,
   <<"w", "h", "a", "t", " ", "i", "s">>,
   <<"l", "o", "g", "s">>,
   <<"x", "y", "z">>,
   <<"j", "a", "v", "a", "s", "c", "r", "i", "p", "t">>}

Utterances == {Join(ws, " ") : ws \in SeqsUpTo(Vocabulary, MaxWords)}

IntentInit ==
  /\ EnvIdle /\ DispatcherIdle /\ AppIdle /\ HttpIdle /\ CacheIdle /\ TinyIdle
  /\ callArgs \in {[fn |-> "detectIntent", userInput |-> u] : u \in Utterances}
  /\ callResult = NoCallResult

ApplyDetectIntent ==
  /\ callArgs.fn = "detectIntent"
  /\ callResult = NoCallResult
  /\ callResult' = [kind |-> "intent", intent |-> detectIntent(callArgs.userInput)]
  /\ UNCHANGED <<llmVars, callArgs, httpVars, cacheVars, tinyVars, appVars>>

IntentNext == ApplyDetectIntent

IntentSpec == IntentInit /\ [][IntentNext]_vars

\* ------------------------------------------------- app.js: chat endpoints
\* a message of req.body.messages; `text` is FALSE when content is no string
\* (the field is missing)
HMsg(role, content, text) == [role |-> role, content |-> content, text |-> text]

ApiMarker == "System Note: You have access to the following external APIs"

SearchMarker == "Web Search Results"

\* contents a caller sends: a system prompt, plain or already carrying an
\* injected block, and user turns that classify as chat, search and image
SystemContents ==
  {<<"be brief">>, <<"be brief", ApiMarker, "Weather", "]">>,
   <<"be brief", SearchMarker, "hit", "]">>}

UserContents == {<<"hello">>, <<"news">>, <<"draw">>}

HttpMessages ==
  {HMsg("system", c, TRUE) : c \in SystemContents}
    \cup {HMsg("user", c, TRUE) : c \in UserContents}
    \cup {HMsg("system", <<>>, FALSE), HMsg("user", <<>>, FALSE)}

\* req.body.messages: absent or empty (<<>>), or a list of messages
HttpMessageLists == SeqsUpTo(HttpMessages, MaxMessages)

SearchModes == {"auto", "on", "off"}

ApiConfig(id, name, enabled) == [id |-> id, name |-> name, enabled |-> enabled]

\* what is configured: nothing, an ordinary API, a search API
ApiConfigs ==
  {<<>>, <<ApiConfig("weather", "Weather", TRUE)>>,
   <<ApiConfig("google_search", "Google", TRUE)>>}

\* messages.findIndex(m => m.role === 'system'), 0 for -1
FindSystem(messages) ==
  IF \E i \in DOMAIN messages : messages[i].role = "system"
    THEN CHOOSE i \in DOMAIN messages :
           /\ messages[i].role = "system"
           /\ \A j \in DOMAIN messages : messages[j].role = "system" => i <= j
    ELSE 0

\* `messages[i].content += block`, or unshift of a new system message;
\* undefined += 'text' is the string 'undefinedtext'
AppendToSystem(messages, block) ==
  LET i == FindSystem(messages)
  IN IF i > 0
       THEN [messages EXCEPT
               ![i] = HMsg("system",
                           (IF messages[i].text THEN messages[i].content ELSE <<"undefined">>)
                             \o block,
                           TRUE)]
       ELSE <<HMsg("system", <<"You are a helpful AI assistant.">> \o block, TRUE)>> \o messages

apiContext(list) == <<ApiMarker>> \o [i \in DOMAIN list |-> list[i].name] \o <<"]">>

searchContext(searchApi, results) ==
  <<SearchMarker, searchApi.name>> \o results
    \o <<"]", "[Instruction: Use the above search results to answer the user's question.]">>

\* POST /api/v1/chat: the API summary is appended without looking for it
injectApiContextChat(messages, list) ==
  IF list = <<>> THEN messages ELSE AppendToSystem(messages, apiContext(list))

\* POST /api/v1/chat/stream: appended unless the marker is there;
\* `.content.includes` raises a TypeError on a content that is no string
injectApiContextStream(messages, list) ==
  LET i == FindSystem(messages)
  IN IF list = <<>> THEN [ok |-> TRUE, messages |-> messages]
     ELSE IF i > 0 /\ ~messages[i].text THEN [ok |-> FALSE, messages |-> messages]
     ELSE IF i > 0 /\ ApiMarker \in Range(messages[i].content)
            THEN [ok |-> TRUE, messages |-> messages]
     ELSE [ok |-> TRUE, messages |-> AppendToSystem(messages, apiContext(list))]

\* ------------------------------------------ app.js: the two chat handlers
MaxChunks == 2

\* what res.write / res.json put on the wire; `live` records whether the
\* consumer was still connected when it was written
Frame(kind, text, status) ==
  [kind |-> kind, text |-> text, status |-> status, live |-> connected]

ContentFrame(text) == Frame("content", text, 200)

DoneFrame == Frame("done", <<"[DONE]">>, 200)

ErrorFrame == Frame("error", <<"error.message">>, 200)

JsonBody(status) == Frame("json", <<>>, status)

ImageFrame == ContentFrame(<<"![Generated Image]", "imageUrl">>)

\* a call on a collaborator, with the messages it is handed
Call(name, arg) == [ev |-> name, arg |-> arg, live |-> connected]

\* the handler's locals and the response, passed from step to step
Handler ==
  [at |-> hpc, messages |-> body.messages, frames |-> frames, ended |-> ended,
   log |-> log, gen |-> gen]

Fresh(messages) ==
  [at |-> "off", messages |-> messages, frames |-> <<>>, ended |-> FALSE,
   log |-> <<>>, gen |-> NoGen]

Write(h, frame) == [h EXCEPT !.frames = Append(@, frame)]

End(h) == [h EXCEPT !.ended = TRUE, !.at = "done"]

Invoke(h, name, arg) == [h EXCEPT !.log = Append(@, Call(name, arg))]

\* res.status(400).json(...) on a missing or empty messages array
badRequest(h) == End(Write(h, JsonBody(400)))

\* the handler's outer catch: a 500 unless headers are sent, else nothing
outerCatch(h) ==
  IF h.frames = <<>> THEN End(Write(h, JsonBody(500))) ELSE [h EXCEPT !.at = "done"]

lastMessage(messages) == messages[Len(messages)]

\* generateStream takes the last message's content, which it wraps as one
\* user message; the first chunk is awaited at once
startStream(h, last) ==
  [Invoke(h, "generateStream", <<HMsg("user", last.content, TRUE)>>)
     EXCEPT !.at = "pull", !.gen = [left |-> MaxChunks, open |-> TRUE]]

apiStage(h, last) ==
  LET injected == injectApiContextStream(h.messages, apis)
  IN IF injected.ok
       THEN startStream([h EXCEPT !.messages = injected.messages], last)
       ELSE outerCatch(h)

\* apis.find(a => a.enabled && (a.id === 'google_search' || a.id === 'bing_search'))
SearchApis ==
  {i \in DOMAIN apis : apis[i].enabled /\ apis[i].id \in {"google_search", "bing_search"}}

searchApi == apis[CHOOSE i \in SearchApis : \A j \in SearchApis : i <= j]

shouldSearch(searchMode, intent) ==
  \/ searchMode = "on"
  \/ searchMode = "auto" /\ intent = "WEB_SEARCH"

searchStage(h, last, searchMode) ==
  IF shouldSearch(searchMode, detectIntent(Spell(last.content))) /\ SearchApis # {}
    THEN [Invoke(Write(h, ContentFrame(<<"*Searching", searchApi.name>>)),
                 "executeSearch", <<last>>)
            EXCEPT !.at = "search"]
    ELSE apiStage(h, last)

\* POST /api/v1/chat/stream up to its first await
streamEntry(messages, searchMode) ==
  LET h == Fresh(messages)
      last == lastMessage(messages)
  IN IF messages = <<>> THEN badRequest(h)
     ELSE IF ~last.text THEN outerCatch(h)
     ELSE IF detectIntent(Spell(last.content)) = "IMAGE_GENERATION"
       THEN [Invoke(Write(h, ContentFrame(<<"*Generating image...*">>)),
                    "generateImage", <<last>>)
               EXCEPT !.at = "image"]
     ELSE searchStage(h, last, searchMode)

\* a variant that goes on to the augmentation stage after an image as well
imageSettled_fallthrough(h, last, searchMode, settled) ==
  IF settled = "url"
    THEN searchStage(Write(h, ImageFrame), last, searchMode)
    ELSE searchStage(Write(h, ContentFrame(<<"*Image generation failed">>)), last, searchMode)

\* imageGenerationService.generateImage settles
imageSettled(h, last, searchMode, settled) ==
  IF settled = "url"
    THEN End(Write(Write(h, ImageFrame), DoneFrame))
    ELSE searchStage(Write(h, ContentFrame(<<"*Image generation failed">>)), last, searchMode)

SearchOutcomes == {"results", "empty", "throws"}

\* apiOrchestrationService.executeSearch settles
searchSettled(h, last, settled) ==
  CASE settled = "results" ->
         apiStage([h EXCEPT !.messages = AppendToSystem(@, searchContext(searchApi, <<"hit">>))],
                  last)
    [] settled = "empty" -> apiStage(h, last)
    [] OTHER -> apiStage(Write(h, ContentFrame(<<"*Search failed">>)), last)

\* one turn of `for await (const chunk of stream)`
pulled(h, settled) ==
  LET p == Invoke(h, "pull", <<>>)
  IN CASE settled = "chunk" ->
            [Write(p, ContentFrame(<<"chunk">>)) EXCEPT !.gen.left = @ - 1]
       [] settled = "end" -> [End(Write(p, DoneFrame)) EXCEPT !.gen.open = FALSE]
       [] OTHER -> [End(Write(p, ErrorFrame)) EXCEPT !.gen.open = FALSE]

\* POST /api/v1/chat up to `await llmService.chat(messages, model, options)`
chatEntry(messages) ==
  LET h == Fresh(messages)
  IN IF messages = <<>> THEN badRequest(h)
     ELSE LET injected == injectApiContextChat(messages, apis)
          IN [Invoke([h EXCEPT !.messages = injected], "chat", injected)
                EXCEPT !.at = "chat"]

chatSettled(h, settled) ==
  IF settled = "returns" THEN End(Write(h, JsonBody(200))) ELSE End(Write(h, JsonBody(500)))

Become(h, b) ==
  /\ hpc' = h.at
  /\ body' = [b EXCEPT !.messages = h.messages]
  /\ frames' = h.frames
  /\ ended' = h.ended
  /\ log' = h.log
  /\ gen' = h.gen

httpRest == <<llmVars, pureVars, cacheVars, tinyVars, appVars, apis>>

HttpInit ==
  /\ EnvIdle /\ DispatcherIdle /\ AppIdle /\ PureIdle /\ CacheIdle /\ TinyIdle
  /\ apis \in ApiConfigs
  /\ hpc = "off"
  /\ body = NoBody
  /\ frames = <<>>
  /\ ended = FALSE
  /\ connected = FALSE
  /\ log = <<>>
  /\ gen = NoGen

StreamRequest ==
  /\ hpc = "off"
  /\ \E messages \in HttpMessageLists, searchMode \in SearchModes :
       \E h \in {streamEntry(messages, searchMode)} :
         Become(h, [route |-> "stream", sent |-> messages, messages |-> messages,
                    searchMode |-> searchMode])
  /\ connected' = TRUE
  /\ UNCHANGED httpRest

ImageSettles ==
  /\ hpc = "image"
  /\ \E settled \in {"url", "throws"} :
       \E h \in {imageSettled(Handler, lastMessage(body.sent), body.searchMode, settled)} :
         Become(h, body)
  /\ UNCHANGED <<connected, httpRest>>

SearchSettles ==
  /\ hpc = "search"
  /\ \E settled \in SearchOutcomes :
       \E h \in {searchSettled(Handler, lastMessage(body.sent), settled)} : Become(h, body)
  /\ UNCHANGED <<connected, httpRest>>

Pull ==
  /\ hpc = "pull"
  /\ \E settled \in {"chunk", "end", "throws"} :
       /\ settled = "chunk" => gen.left > 0
       /\ \E h \in {pulled(Handler, settled)} : Become(h, body)
  /\ UNCHANGED <<connected, httpRest>>

\* the consumer goes away; no handler is registered for it
Disconnect ==
  /\ hpc \in {"image", "search", "pull"}
  /\ connected
  /\ connected' = FALSE
  /\ UNCHANGED <<hpc, body, frames, ended, log, gen, httpRest>>

ChatRequest ==
  /\ hpc = "off"
  /\ \E messages \in HttpMessageLists :
       \E h \in {chatEntry(messages)} :
         Become(h, [route |-> "chat", sent |-> messages, messages |-> messages,
                    searchMode |-> "auto"])
  /\ connected' = TRUE
  /\ UNCHANGED httpRest

ChatSettles ==
  /\ hpc = "chat"
  /\ \E settled \in {"returns", "throws"} :
       \E h \in {chatSettled(Handler, settled)} : Become(h, body)
  /\ UNCHANGED <<connected, httpRest>>

HttpNext ==
  \/ StreamRequest
  \/ ImageSettles
  \/ SearchSettles
  \/ Pull
  \/ Disconnect
  \/ ChatRequest
  \/ ChatSettles

HttpSpec == HttpInit /\ [][HttpNext]_vars

\* ------------------------------- generateStream: the simulated stream loop
MaxTextLen == 21

MaxPeriod == 3

\* a generated text of n characters, a 'b' at every p-th place
Text(n, p) == [i \in 1..n |-> IF i % p = 0 THEN "b" ELSE "a"]

Texts == {Text(n, p) : n \in 0..MaxTextLen, p \in 1..MaxPeriod}

\* String.prototype.slice(from, to) for 0 <= from <= to, 0-based, `to` excluded
slice_short(text, from, to) ==
  SubSeq(text, from + 1, (IF to < Len(text) THEN to - 1 ELSE Len(text)))

slice(text, from, to) ==
  SubSeq(text, from + 1, (IF to < Len(text) THEN to ELSE Len(text)))

\* the loop's state: `i`, what was yielded so far, and whether it returned
StreamLoop(i, yielded, done) ==
  [kind |-> "stream", i |-> i, yielded |-> yielded, done |-> done]

ChunkInit ==
  /\ EnvIdle /\ DispatcherIdle /\ AppIdle /\ HttpIdle /\ CacheIdle /\ TinyIdle
  /\ callArgs \in {[fn |-> "simulatedStream", text |-> t] : t \in Texts}
  /\ callResult = StreamLoop(0, <<>>, FALSE)

\* yield { content: text.slice(i, i + chunkSize) }; i += chunkSize
YieldChunk ==
  /\ callArgs.fn = "simulatedStream"
  /\ ~callResult.done
  /\ callResult.i < Len(callArgs.text)
  /\ callResult' =
       StreamLoop(callResult.i + chunkSize,
                  Append(callResult.yielded,
                         slice(callArgs.text, callResult.i, callResult.i + chunkSize)),
                  FALSE)
  /\ UNCHANGED <<llmVars, callArgs, httpVars, cacheVars, tinyVars, appVars>>

\* the loop condition fails and the generator returns
FinishStream ==
  /\ callArgs.fn = "simulatedStream"
  /\ ~callResult.done
  /\ callResult.i >= Len(callArgs.text)
  /\ callResult' = [callResult EXCEPT !.done = TRUE]
  /\ UNCHANGED <<llmVars, callArgs, httpVars, cacheVars, tinyVars, appVars>>

ChunkNext == YieldChunk \/ FinishStream

ChunkSpec == ChunkInit /\ [][ChunkNext]_vars

\* ----------------------------------- loadXenovaPipeline: XENOVA_PIPELINES
\* cache[k] is the instance held for key k (0: none); instances of a key are
\* numbered in the order they are constructed, built[k] counts them
cacheRest == <<llmVars, pureVars, httpVars, tinyVars, appVars>>

CacheInit == EnvIdle /\ DispatcherIdle /\ AppIdle /\ PureIdle /\ HttpIdle /\ TinyIdle /\ CacheIdle

\* has(cacheKey) ? return get(cacheKey) : await getTransformers()
StartLoad ==
  \E r \in Loaders, k \in CacheKeys :
    /\ loader[r].at = "idle"
    /\ loader' = [loader EXCEPT ![r] =
                    IF cache[k] # 0 THEN [at |-> "done", key |-> k, got |-> cache[k]]
                    ELSE [at |-> "import", key |-> k, got |-> 0]]
    /\ UNCHANGED <<cache, built, cacheRest>>

\* getTransformers() resolves (or rejects); pipeline(...) is called and awaited
Imported ==
  \E r \in Loaders, imported \in BOOLEAN :
    /\ loader[r].at = "import"
    /\ loader' = [loader EXCEPT ![r].at = IF imported THEN "construct" ELSE "failed"]
    /\ UNCHANGED <<cache, built, cacheRest>>

\* pipeline(...) resolves with a new instance, which is set and returned,
\* or rejects
Constructed ==
  \E r \in Loaders, constructed \in BOOLEAN :
    /\ loader[r].at = "construct"
    /\ IF constructed
         THEN LET k == loader[r].key
              IN /\ built' = [built EXCEPT ![k] = @ + 1]
                 /\ cache' = [cache EXCEPT ![k] = built[k] + 1]
                 /\ loader' = [loader EXCEPT ![r].at = "done", ![r].got = built[k] + 1]
         ELSE /\ loader' = [loader EXCEPT ![r].at = "failed"]
              /\ UNCHANGED <<cache, built>>
    /\ UNCHANGED cacheRest

\* the request that loaded is over
Unload ==
  \E r \in Loaders :
    /\ loader[r].at \in {"done", "failed"}
    /\ loader' = [loader EXCEPT ![r] = IdleLoader]
    /\ UNCHANGED <<cache, built, cacheRest>>

CacheNext == StartLoad \/ Imported \/ Constructed \/ Unload

CacheSpec == CacheInit /\ [][CacheNext]_vars

\* ------------------------------------------ tinyLLM: the exported singleton
maxContext == 5

TinyPrompts == SeqsUpTo(Words, 1)

\* this.context.push({ role, content }); shift() beyond maxContext * 2 entries
updateContext(ctx, role, content) ==
  LET pushed == Append(ctx, [role |-> role, content |-> content])
  IN IF Len(pushed) > maxContext * 2 THEN Tail(pushed) ELSE pushed

\* what tinyLLM.generate leaves in this.context: nothing for a blank prompt,
\* else the prompt and the reply
contextAfter(ctx, prompt) ==
  IF Trim(prompt) = <<>> THEN ctx
  ELSE updateContext(updateContext(ctx, "user", prompt), "assistant", tinyLLMGenerate(prompt))

TinyInit ==
  /\ variant = "part_010" /\ openaiClient = FALSE /\ hfKey = FALSE
  /\ DispatcherIdle /\ AppIdle /\ PureIdle /\ HttpIdle /\ CacheIdle
  /\ context = <<>>

\* a request served by generateWithLocalModel, which awaits tinyLLM.generate
GenerateLocal ==
  /\ variant = "part_010"
  /\ \E prompt \in TinyPrompts : context' = contextAfter(context, prompt)
  /\ UNCHANGED <<llmVars, pureVars, httpVars, cacheVars, appVars>>

TinyNext == GenerateLocal

TinySpec == TinyInit /\ [][TinyNext]_vars

\* ------------------------------------- app.js: validation of POST bodies
\* values a body field can hold: absent, '', a non-empty string, [], a
\* non-empty array
BodyValues == {"undefined", "''", "'x'", "[]", "[m]"}

\* !v
Falsy_undefinedOnly(v) == v = "undefined"

Falsy(v) == v \in {"undefined", "''"}

IsString(v) == v \in {"''", "'x'"}

IsArray(v) == v \in {"[]", "[m]"}

\* the POST routes that read a field of the body, with the test each applies:
\*   all:    if (!a || !b) 400          any:   if (!a && !b) 400
\*   string: if (!a || typeof a !== 'string') 400
\*   array:  if (!a || !Array.isArray(a) || a.length === 0) 400
\* and the collaborator the handler calls first once the test has passed
Endpoint(path, fields, rule, calls) ==
  [path |-> path, fields |-> fields, rule |-> rule, calls |-> calls]

PostEndpoints ==
  { Endpoint("/api/v1/tools/search", {"query"}, "all", "apiOrchestrationService.executeSearch"),
    Endpoint("/api/v1/generate-image", {"prompt"}, "all", "imageGenerationService.generateImage"),
    Endpoint("/api/v1/chat", {"messages"}, "array", "apiOrchestrationService.listApis"),
    Endpoint("/api/v1/chat/stream", {"messages"}, "array", "intentDetector.detectIntent"),
    Endpoint("/api/v1/generate", {"prompt"}, "all", "llmService.generateText"),
    Endpoint("/api/v1/intent", {"query"}, "all", "intentDetector.detectIntent"),
    Endpoint("/api/v1/nlp/analyze", {"text"}, "string", "nlpService.analyze"),
    Endpoint("/api/v1/nlp/entities", {"text"}, "string", "nlpService.extractEntities"),
    Endpoint("/api/v1/nlp/sentiment", {"text"}, "string", "nlpService.analyzeSentiment"),
    Endpoint("/api/v1/nlp/keywords", {"text"}, "string", "nlpService.extractKeywords"),
    Endpoint("/api/v1/rag/query", {"query"}, "all", "ragService.query"),
    Endpoint("/api/v1/rag/upload", {"filename", "content"}, "all", "ragService.uploadDocument"),
    Endpoint("/api/v1/assistant/code-review", {"code"}, "all", "llmService.generateText"),
    Endpoint("/api/v1/assistant/troubleshoot", {"error_message"}, "all", "llmService.generateText"),
    Endpoint("/api/v1/assistant/document", {"type", "content"}, "all", "llmService.generateText"),
    Endpoint("/api/v1/assistant/security-check", {"code", "dependencies"}, "any",
             "llmService.generateText"),
    Endpoint("/api/v1/assistant/optimize", {"code", "metrics"}, "any", "llmService.generateText"),
    Endpoint("/api/v1/assistant/generate-tests", {"code"}, "all", "llmService.generateText"),
    Endpoint("/api/v1/agent/review-task", {"description"}, "all", "agentReviewService.reviewTask"),
    Endpoint("/api/v1/external-api/discover", {"url"}, "all", "apiOrchestrationService.discoverApi"),
    Endpoint("/api/v1/external-api/configure", {"baseUrl", "name"}, "all",
             "apiOrchestrationService.configureApi"),
    Endpoint("/api/v1/external-api/query", {"query"}, "all", "apiOrchestrationService.listApis") }

\* the handler's test on req.body
passes(endpoint, fieldsOf) ==
  CASE endpoint.rule = "all" -> \A f \in endpoint.fields : ~Falsy(fieldsOf[f])
    [] endpoint.rule = "any" -> \E f \in endpoint.fields : ~Falsy(fieldsOf[f])
    [] endpoint.rule = "string" ->
         \A f \in endpoint.fields : ~Falsy(fieldsOf[f]) /\ IsString(fieldsOf[f])
    [] OTHER ->
         \A f \in endpoint.fields :
           ~Falsy(fieldsOf[f]) /\ IsArray(fieldsOf[f]) /\ fieldsOf[f] # "[]"

Response(status, called) == [kind |-> "response", status |-> status, called |-> called]

\* a handler from its first line to its response: 400 before anything is
\* called, else the collaborators run and the catch block answers 500 if
\* one of them throws
post(endpoint, fieldsOf, thrown) ==
  IF ~passes(endpoint, fieldsOf) THEN Response(400, <<>>)
  ELSE Response((IF thrown THEN 500 ELSE 200), <<endpoint.calls>>)

PostInit ==
  /\ EnvIdle /\ DispatcherIdle /\ AppIdle /\ HttpIdle /\ CacheIdle /\ TinyIdle
  /\ \E e \in PostEndpoints : \E b \in [e.fields -> BodyValues] :
       callArgs = [fn |-> "POST", endpoint |-> e, fieldsOf |-> b]
  /\ callResult = NoCallResult

ApplyPost ==
  /\ callArgs.fn = "POST"
  /\ callResult = NoCallResult
  /\ \E thrown \in BOOLEAN :
       callResult' = post(callArgs.endpoint, callArgs.fieldsOf, thrown)
  /\ UNCHANGED <<llmVars, callArgs, httpVars, cacheVars, tinyVars, appVars>>

PostNext == ApplyPost

PostSpec == PostInit /\ [][PostNext]_vars

\* ----------------------------- generateStream: the Ollama NDJSON branch
MaxLines == 2

MaxCuts == 2

\* what one NDJSON line of the daemon carries: a content fragment ("a", "b"),
\* an error field ("!"), or neither (".", e.g. the final done line)
LineTags == {"a", "b", "!", "."}

\* the line as characters: an object, which no proper part of it is
Encode(tag) == <<"{", tag, "}">>

Bytes(lines) == Concat([i \in DOMAIN lines |-> Encode(lines[i]) \o <<"\n">>])

Min(S) == CHOOSE x \in S : \A y \in S : x <= y

RECURSIVE PiecesFrom(_, _, _)
\* the transport chunks of the byte stream, cut after each position of `cuts`
PiecesFrom(bytes, cuts, start) ==
  IF start > Len(bytes) THEN <<>>
  ELSE LET later == {c \in cuts : c >= start}
           stop == IF later = {} THEN Len(bytes) ELSE Min(later)
       IN <<SubSeq(bytes, start, stop)>> \o PiecesFrom(bytes, cuts, stop + 1)

RECURSIVE split(_)
\* String.prototype.split('\n')
split(str) ==
  IF \A i \in DOMAIN str : str[i] # "\n" THEN <<str>>
  ELSE LET i == Min({j \in DOMAIN str : str[j] = "\n"})
       IN <<SubSeq(str, 1, i - 1)>> \o split(SubSeq(str, i + 1, Len(str)))

\* JSON.parse(line) returns an object (else it throws a SyntaxError)
Parses(line) == Len(line) = 3 /\ line[1] = "{" /\ line[3] = "}" /\ line[2] \in LineTags

RECURSIVE yieldsOf(_)
\* the inner loop over the lines of one chunk: a line that does not parse is
\* dropped by the catch block; so is, in part_010, the Error thrown for a
\* line with an error field; a line with message.content is yielded
yieldsOf(lines) ==
  IF lines = <<>> THEN <<>>
  ELSE (IF Parses(Head(lines)) /\ Head(lines)[2] \in {"a", "b"}
          THEN <<Head(lines)[2]>> ELSE <<>>)
         \o yieldsOf(Tail(lines))

NdjsonLoop(at, yielded, status) ==
  [kind |-> "ndjson", at |-> at, yielded |-> yielded, status |-> status]

NdjsonInit ==
  /\ variant \in Variants /\ openaiClient = FALSE /\ hfKey = FALSE
  /\ DispatcherIdle /\ AppIdle /\ HttpIdle /\ CacheIdle /\ TinyIdle
  /\ \E lines \in SeqsUpTo(LineTags, MaxLines) :
       \E cuts \in SUBSET (1..(Len(Bytes(lines)) - 1)) :
         /\ Cardinality(cuts) <= MaxCuts
         /\ callArgs = [fn |-> "ollamaStream", lines |-> lines,
                        chunks |-> PiecesFrom(Bytes(lines), cuts, 1)]
  /\ callResult = NdjsonLoop(1, <<>>, "open")

\* one turn of `for await (const chunk of response.data)`
ReceiveChunk ==
  /\ callArgs.fn = "ollamaStream"
  /\ callResult.status = "open"
  /\ callResult.at <= Len(callArgs.chunks)
  /\ callResult' =
       NdjsonLoop(callResult.at + 1,
                  callResult.yielded
                    \o yieldsOf(FilterNonEmpty(split(callArgs.chunks[callResult.at]))),
                  "open")
  /\ UNCHANGED <<llmVars, callArgs, httpVars, cacheVars, tinyVars, appVars>>

\* the response stream ends and the generator returns
EndOfStream ==
  /\ callArgs.fn = "ollamaStream"
  /\ callResult.status = "open"
  /\ callResult.at > Len(callArgs.chunks)
  /\ callResult' = [callResult EXCEPT !.status = "returned"]
  /\ UNCHANGED <<llmVars, callArgs, httpVars, cacheVars, tinyVars, appVars>>

NdjsonNext == ReceiveChunk \/ EndOfStream

NdjsonSpec == NdjsonInit /\ [][NdjsonNext]_vars

\* ------------------------------- apiOrchestrationService and its routes
\* ids under which an API is stored; each API is named after its id
ApiIds == {"weather", "news"}

CredentialKeys == {"apiKey", "token", "username", "password"}

\* a text is the sequence of its parts, <<>> an absent or empty one
NoCredentials == [k \in CredentialKeys |-> <<>>]

\* the secret a client holds for an API
SecretOf(id) == <<"secret of " \o id>>

\* encrypt(text): a falsy text is returned as it is, any other becomes
\* iv ":" ciphertext
encrypt(text) == IF text = <<>> THEN text ELSE <<"iv", ":">> \o text

\* decrypt(text): a text without ":" is returned as it is
decrypt(text) ==
  IF text = <<>> \/ ":" \notin Range(text) THEN text ELSE SubSeq(text, 3, 3)

ApiRecord(id, name, authType, authLocation, credentials) ==
  [id |-> id, name |-> name, authType |-> authType, authLocation |-> authLocation,
   credentials |-> credentials]

NoConfig == ApiRecord("", "", "none", "header", NoCredentials)

CredentialsFor(id, authType) ==
  CASE authType = "apiKey" -> [NoCredentials EXCEPT !["apiKey"] = SecretOf(id)]
    [] authType = "bearer" -> [NoCredentials EXCEPT !["token"] = SecretOf(id)]
    [] authType = "basic" ->
         [NoCredentials EXCEPT !["username"] = <<"user">>, !["password"] = SecretOf(id)]
    [] OTHER -> NoCredentials

\* the bodies a client posts to /configure for the API `id`: with the id or
\* without, with a name or without, one authentication scheme and its secret
ConfigBodies(id) ==
  {ApiRecord(sentId, name, auth[1], auth[2], CredentialsFor(id, auth[1])) :
     sentId \in {id, ""}, name \in {id, ""},
     auth \in {<<"none", "header">>, <<"apiKey", "header">>, <<"apiKey", "query">>,
               <<"bearer", "header">>, <<"basic", "header">>}}

StoredIds == {configs[i].id : i \in DOMAIN configs}

IndexOf(id) == CHOOSE i \in DOMAIN configs : configs[i].id = id

\* Map.set: an existing key keeps its place, a new one goes last
MapSet(config) ==
  IF config.id \in StoredIds THEN [configs EXCEPT ![IndexOf(config.id)] = config]
  ELSE Append(configs, config)

\* configureApi: the credentials are encrypted in place, the configuration is
\* stored under `id` and returned
configureApi(config, id) ==
  [config EXCEPT !.id = id,
                 !.credentials = [k \in CredentialKeys |-> encrypt(config.credentials[k])]]

\* `const { credentials, ...safeConfig } = api`
safeConfig(api) == [api EXCEPT !.credentials = NoCredentials]

listApis == [i \in DOMAIN configs |-> safeConfig(configs[i])]

getApi(id) == IF id \in StoredIds THEN configs[IndexOf(id)] ELSE NoConfig

\* a JavaScript object is the set of its <<key, value>> entries
Params(defined, entries) == [defined |-> defined, entries |-> entries]

Put(entries, key, value) == {e \in entries : e[1] # key} \cup {<<key, value>>}

NoPlan == [endpoint |-> "", confident |-> FALSE, params |-> Params(FALSE, {})]

\* the plans the language model may return: with an endpoint or none, with a
\* confidence of at least 0.6 or below, params omitted, empty or with one entry
Plans ==
  [endpoint : {"", "/forecast"}, confident : BOOLEAN,
   params : {Params(FALSE, {}), Params(TRUE, {}), Params(TRUE, {<<"city", <<"x">>>>})}]

\* executeRequest(apiId, endpointPath, method, params = {}, body): the
\* caller's `params` as the call leaves it, and the headers and query string
\* of the outbound request.  An omitted `params` takes the default, a fresh
\* object; a given one is written to.
executeRequest(config, params) ==
  LET apiKey == decrypt(config.credentials["apiKey"])
      token == decrypt(config.credentials["token"])
      basic == decrypt(config.credentials["username"]) \o <<":">>
                 \o decrypt(config.credentials["password"])
      byKey == config.authType = "apiKey" /\ config.credentials["apiKey"] # <<>>
      inQuery == byKey /\ config.authLocation # "header"
      own == IF inQuery THEN Put(params.entries, "api_key", apiKey) ELSE params.entries
  IN [params |-> IF params.defined THEN Params(TRUE, own) ELSE params,
      queryParams |-> own,
      headers |->
        IF byKey THEN (IF inQuery THEN {} ELSE {<<"api_key", apiKey>>})
        ELSE IF config.authType = "bearer" /\ config.credentials["token"] # <<>>
          THEN {<<"Authorization", <<"Bearer">> \o token>>}
        ELSE IF config.authType = "basic" /\ config.credentials["username"] # <<>>
          THEN {<<"Authorization", <<"Basic">> \o basic>>}
        ELSE {}]

\* a response body: its status, and the configurations and the plan in it
Sent(status, config, list, plan) ==
  [status |-> status, config |-> config, apis |-> list, plan |-> plan]

SendError(status) == Sent(status, NoConfig, <<>>, NoPlan)

OrchInit ==
  /\ EnvIdle /\ DispatcherIdle /\ AppIdle /\ PureIdle /\ HttpIdle /\ CacheIdle /\ TinyIdle

orchRest == <<llmVars, pureVars, httpVars, cacheVars, tinyVars, gaugeVars>>

\* POST /api/v1/external-api/configure; crypto.randomUUID() is an id not in use
Configure ==
  /\ \E id \in ApiIds : \E config \in ConfigBodies(id) :
       IF config.name = ""
         THEN /\ sent' = SendError(400)
              /\ UNCHANGED configs
         ELSE /\ config.id = "" => id \notin StoredIds
              /\ \E newConfig \in {configureApi(config, id)} :
                   /\ configs' = MapSet(newConfig)
                   /\ sent' = Sent(200, newConfig, <<>>, NoPlan)
  /\ UNCHANGED orchRest

\* GET /api/v1/external-api/list
ListApis ==
  /\ sent' = Sent(200, NoConfig, listApis, NoPlan)
  /\ UNCHANGED <<configs, orchRest>>

\* GET /api/v1/external-api/:apiId
GetApi ==
  /\ \E apiId \in ApiIds :
       sent' = IF apiId \in StoredIds
                 THEN Sent(200, safeConfig(getApi(apiId)), <<>>, NoPlan)
                 ELSE SendError(404)
  /\ UNCHANGED <<configs, orchRest>>

\* DELETE /api/v1/external-api/:apiId
DeleteApi ==
  /\ \E apiId \in ApiIds :
       IF apiId \in StoredIds
         THEN /\ configs' = SelectSeq(configs, LAMBDA c : c.id # apiId)
              /\ sent' = Sent(200, NoConfig, <<>>, NoPlan)
         ELSE /\ sent' = SendError(404)
              /\ UNCHANGED configs
  /\ UNCHANGED orchRest

\* the API names a query may contain
Queries == {[empty |-> e, names |-> n] : e \in BOOLEAN, n \in SUBSET ApiIds}

\* `apis.find(api => query.toLowerCase().includes(api.name.toLowerCase()))`
FoundApis(query) == {i \in DOMAIN configs : configs[i].name \in query.names}

foundApi(query) == configs[CHOOSE i \in FoundApis(query) : \A j \in FoundApis(query) : i <= j]

\* POST /api/v1/external-api/query.  `analysed`: the first generateText call
\* returned a plan ("plan"), a text that is no JSON ("garbage"), or raised,
\* as building the prompt does for a configuration without endpoints
\* ("throws"); `executed`: axios resolved; `formatted`: the second
\* generateText call returned.
query(q, apiId, analysed, plan, executed, formatted) ==
  LET targetApiId ==
        IF apiId # "" THEN apiId
        ELSE IF FoundApis(q) # {} THEN foundApi(q).id ELSE ""
      apiConfig == getApi(targetApiId)
      request == executeRequest(apiConfig, plan.params)
  IN IF q.empty THEN SendError(400)
     ELSE IF targetApiId = "" THEN SendError(400)
     ELSE IF apiConfig = NoConfig THEN SendError(404)
     ELSE IF analysed # "plan" THEN SendError(500)
     ELSE IF plan.endpoint = "" \/ ~plan.confident THEN Sent(200, NoConfig, <<>>, plan)
     ELSE IF ~executed \/ ~formatted THEN SendError(500)
     ELSE Sent(200, NoConfig, <<>>, [plan EXCEPT !.params = request.params])

Query ==
  /\ \E q \in Queries, apiId \in ApiIds \cup {""}, analysed \in {"plan", "garbage", "throws"},
        plan \in Plans, executed \in BOOLEAN, formatted \in BOOLEAN :
       sent' = query(q, apiId, analysed, plan, executed, formatted)
  /\ UNCHANGED <<configs, orchRest>>

OrchNext ==
  \/ Configure
  \/ ListApis
  \/ GetApi
  \/ DeleteApi
  \/ Query

OrchSpec == OrchInit /\ [][OrchNext]_vars

\* ------------------------------------------- the activeConnections gauge
\* a request is "none" (not yet received), "open" (received, its handler
\* running, its client connected), "hung" (its handler over without ending
\* the response, its client connected), "finished" (the response ended and
\* 'finish' was emitted), "aborted" (its client gone, its handler still
\* running) or "closed" (its client gone, its handler over)
GaugeInit ==
  /\ EnvIdle /\ DispatcherIdle /\ AppIdle /\ PureIdle /\ HttpIdle /\ CacheIdle /\ TinyIdle

gaugeRest == <<llmVars, pureVars, httpVars, cacheVars, tinyVars, orchVars>>

\* the middleware: activeConnections.inc(), res.on('finish', ...), next()
Receive(r) ==
  /\ conns[r] = "none"
  /\ activeConnections' = activeConnections + 1
  /\ conns' = [conns EXCEPT ![r] = "open"]
  /\ UNCHANGED gaugeRest

\* the handler ends the response of a connected client: 'finish' is emitted
\* and the listener runs
Finish(r) ==
  /\ conns[r] = "open"
  /\ activeConnections' = activeConnections - 1
  /\ conns' = [conns EXCEPT ![r] = "finished"]
  /\ UNCHANGED gaugeRest

\* the outer catch of POST /api/v1/chat/stream after the headers were sent:
\* the handler returns and the response is never ended
GiveUp(r) ==
  /\ conns[r] = "open"
  /\ conns' = [conns EXCEPT ![r] = "hung"]
  /\ UNCHANGED <<activeConnections, gaugeRest>>

\* the client disconnects before the response completes: 'close' is emitted,
\* for which no listener is registered
Abort(r) ==
  /\ conns[r] \in {"open", "hung"}
  /\ conns' = [conns EXCEPT ![r] = IF conns[r] = "open" THEN "aborted" ELSE "closed"]
  /\ UNCHANGED <<activeConnections, gaugeRest>>

\* the handler ends the response of a client that is gone: whether 'finish'
\* is still emitted on the destroyed socket depends on what was left to write
EndAfterAbort(r) ==
  /\ conns[r] = "aborted"
  /\ \E emitted \in BOOLEAN :
       activeConnections' = IF emitted THEN activeConnections - 1 ELSE activeConnections
  /\ conns' = [conns EXCEPT ![r] = "closed"]
  /\ UNCHANGED gaugeRest

GaugeNext ==
  \E r \in Requests :
    \/ Receive(r)
    \/ Finish(r)
    \/ GiveUp(r)
    \/ Abort(r)
    \/ EndAfterAbort(r)

GaugeSpec == GaugeInit /\ [][GaugeNext]_vars

\* =================================================================== claims
\* the failure taxonomy of the dispatcher's contract
FailureClass(err) ==
  CASE err.code = "" -> "none"
    [] err.code = "NO_CREDENTIAL" -> "missing_credential"
    [] err.status \in {401, 403} -> "auth_error"
    [] err.status = 429 -> "rate_limited"
    [] err.status = 503 \/ err.code = "ECONNABORTED" -> "service_unavailable"
    [] err.code = "ECONNREFUSED" -> "connection_refused"
    [] err.status = 400 -> "malformed_request"
    [] OTHER -> "unknown"

Count(names) == Cardinality({i \in DOMAIN trace : trace[i].ev \in names})

ProviderAdapters == {"openai", "ollama", "xenova", "huggingface"}

\* entry points of the rule-based adapter
RuleBasedAdapter == {"generateWithLocalModel", "generateLocalChatResponse"}

ResponseGenerators ==
  {"generateAakarshNeuralResponse", "generateLocalNeuralResponse", "ruleBasedReply",
   "tinyLLM.generate", "generateLocalChatResponse"}

\* the prompt the caller handed in
OriginalPrompt ==
  IF req.entry = "chat" THEN req.messages[LastUserIndex(req.messages)].content
  ELSE req.prompt

WellFormed(res) ==
  /\ ~res.promise
  /\ res.text # <<>>
  /\ res.model \in DOMAIN AVAILABLE_MODELS(variant)
  /\ res.modelInfo \in DOMAIN AVAILABLE_MODELS(variant)

Completed == pc = "done"

\* C1: whatever adapter failure other than an authentication error occurs
\* (a missing credential included), generateText, chat and generateStream
\* complete without propagating an exception, and a returned result is
\* well-formed.
C1_NoExceptionUnlessAuth ==
  (Completed /\ FailureClass(failure) # "auth_error") =>
     /\ outcome # "thrown"
     /\ outcome = "result" => WellFormed(result)

\* C2: after an adapter failure of a class other than auth_error the
\* rule-based adapter is invoked exactly once for the request, with the
\* original prompt, and the request ends with that adapter's result.
C2_ExactlyOneRuleBasedRetry ==
  (Completed /\ FailureClass(failure) \notin {"none", "missing_credential", "auth_error"}) =>
     /\ outcome = "result"
     /\ Count(RuleBasedAdapter) = 1
     /\ req.entry = "generateText" =>
          \E i \in DOMAIN trace :
            trace[i].ev = "generateWithLocalModel" /\ trace[i].arg = req.prompt

\* C3: a 401/403 from a cloud adapter ends the request with a returned
\* result (no exception) carrying an authentication-failure message and the
\* requested model id, and the rule-based adapter is not invoked.
C3_AuthErrorReturnedNotThrown ==
  (Completed /\ FailureClass(failure) = "auth_error"
     /\ TypeOf(variant, req.modelId) \in {"openai", "huggingface"}
     /\ req.entry \in {"generateText", "chat"}) =>
     /\ outcome = "result"
     /\ result.model = req.modelId
     /\ Count(RuleBasedAdapter) = 0

\* C4: for a model id that is no key of the registry, generateText and chat
\* return (never throw) a result whose model is the default model id and
\* whose descriptor has type 'local'.
C4_UnknownIdResolvesToDefault ==
  (Completed /\ req.entry \in {"generateText", "chat"}
     /\ req.modelId \notin DOMAIN AVAILABLE_MODELS(variant)) =>
     /\ outcome = "result"
     /\ result.model = defaultModel(variant)
     /\ TypeOf(variant, result.modelInfo) = "local"

\* C5: generateStream called with an id that is not in the registry streams
\* exactly what it streams for the default model id.
C5_StreamUnknownIdAsDefault ==
  (Completed /\ req.entry = "generateStream" /\ req.modelId \in UnknownIds) =>
     LET asDefault == generateText(variant, openaiClient, hfKey, req.prompt,
                                   defaultModel(variant), req.options)
     IN /\ outcome = "result"
        /\ result.model = defaultModel(variant)
        /\ chunks = SliceChunks(asDefault.res.text, chunkSize)

SafetyBlockedIn(tr) ==
  \E i \in DOMAIN tr :
    tr[i].ev = "runLocalSafetyChecks" /\ runLocalSafetyChecks(tr[i].arg).blocked

BlockedReason ==
  LET i == CHOOSE j \in DOMAIN trace :
             trace[j].ev = "runLocalSafetyChecks" /\ runLocalSafetyChecks(trace[j].arg).blocked
  IN runLocalSafetyChecks(trace[i].arg).reason

\* C6: when the safety filter reports the prompt as blocked, the request ends
\* with a refusal naming the violated policy and loading=false, and no
\* provider adapter, NLP analysis or response generator was invoked for it.
C6_BlockedMeansNothingInvoked ==
  (Completed /\ SafetyBlockedIn(trace)) =>
     /\ outcome = "result"
     /\ BlockedReason \in Range(result.text)
     /\ result.loading = "false"
     /\ Count(ProviderAdapters) = 0
     /\ Count({"nlpService.analyze"}) = 0
     /\ Count(ResponseGenerators) = 0

\* C7: a prompt that matches a policy rule never reaches an offline/local
\* adapter (on-device model, daemon, rule-based or neural generator).
C7_UnsafePromptNeverReachesLocalAdapter ==
  \A i \in DOMAIN trace :
    trace[i].ev \in ({"ollama", "xenova"} \cup ResponseGenerators) =>
      ~runLocalSafetyChecks(trace[i].arg).blocked

MentionsSubstitution(notice) ==
  Range(notice) \cap {UsingBuiltIn, UsingTheBuiltIn, FallingBack} # {}

\* C8: a result whose model id differs from the requested one has a notice,
\* in its notices, that mentions the substitution.
C8_SubstitutionHasNotice ==
  (Completed /\ outcome = "result" /\ ~result.promise
     /\ req.modelId # Undefined /\ result.model # req.modelId) =>
     \E i \in DOMAIN result.notices : MentionsSubstitution(result.notices[i])

OllamaRefused ==
  /\ Completed
  /\ req.entry \in {"generateText", "chat"}
  /\ Count({"ollama"}) = 1
  /\ failure.code = "ECONNREFUSED"

\* C9: after a connection-refused failure of the Ollama adapter the returned
\* result comes from the rule-based adapter (default model, type local,
\* invoked once), has loading=false and carries the notice naming the
\* daemon's base URL.
C9_OllamaRefusedFallsBackWithUrl ==
  OllamaRefused =>
     /\ outcome = "result"
     /\ ~result.promise
     /\ Count({"generateWithLocalModel"}) = 1
     /\ result.model = defaultModel(variant)
     /\ TypeOf(variant, result.modelInfo) = "local"
     /\ result.loading = "false"
     /\ \/ OLLAMA_HOST \in Range(result.text)
        \/ \E i \in DOMAIN result.notices : OLLAMA_HOST \in Range(result.notices[i])

C9_Witness ==
  /\ OllamaRefused
  /\ outcome = "result"
  /\ OLLAMA_HOST \in Range(result.text)

\* C10: a returned result has loading=true exactly when the adapter failure
\* was of class service_unavailable (HTTP 503 or a timeout of the call).
C10_LoadingIffServiceUnavailable ==
  (Completed /\ outcome = "result" /\ ~result.promise) =>
     (result.loading = "true" <=> FailureClass(failure) = "service_unavailable")

\* C11: generateWithLocalModel returns a result with a text, and raises
\* nothing, whatever value it is given as prompt: empty, whitespace-only,
\* ordinary text, null, undefined or a value that is no string.
C11_LocalModelNeverThrows ==
  (callArgs.fn = "generateWithLocalModel" /\ callResult # NoCallResult) =>
     /\ callResult.kind = "done"
     /\ callResult.res.text # <<>>


Terminal(frame) == frame.kind \in {"done", "error"}

Streaming == body.route = "stream" /\ frames # <<>> /\ frames[1].kind # "json"

Calls(name) == {i \in DOMAIN log : log[i].ev = name}

Occurrences(content, token) == Cardinality({i \in DOMAIN content : content[i] = token})

ImageRequest ==
  /\ body.route = "stream"
  /\ body.sent # <<>>
  /\ lastMessage(body.sent).text
  /\ detectIntent(Spell(lastMessage(body.sent).content)) = "IMAGE_GENERATION"

\* C12: a /api/v1/chat/stream response that started streaming carries no
\* frame after a terminal frame ([DONE] or {error}), so never both, and once
\* the handler is through the response it ends with exactly one terminal frame.
C12_ExactlyOneTerminalFrame ==
  Streaming =>
    /\ \A i \in DOMAIN frames : Terminal(frames[i]) => i = Len(frames)
    /\ hpc = "done" => Terminal(frames[Len(frames)])

C15_InjectionIdempotent ==
  \A i \in DOMAIN body.messages :
    /\ Occurrences(body.messages[i].content, ApiMarker) <= 1
    /\ Occurrences(body.messages[i].content, SearchMarker) <= 1

\* C16: on /api/v1/chat/stream the messages handed to the dispatcher are the
\* message list as the augmentation stage rewrote it.
C16_AdapterGetsRewrittenList ==
  \A i \in Calls("generateStream") : log[i].arg = body.messages

Ceil(n, k) == (n + k - 1) \div k

SimulatedStream == callArgs.fn = "simulatedStream"

\* C14: the simulated stream of a text of length N with chunk size K = 10
\* emits chunks of 1 to K characters each; when it has finished, the chunks
\* concatenated in emission order are the text and there are ceil(N/K) of them.
C14_ChunksPartitionText ==
  SimulatedStream =>
    /\ \A c \in DOMAIN callResult.yielded :
         Len(callResult.yielded[c]) \in 1..chunkSize
    /\ callResult.done =>
         /\ Concat(callResult.yielded) = callArgs.text
         /\ Len(callResult.yielded) = Ceil(Len(callArgs.text), chunkSize)

C14_Witness ==
  /\ SimulatedStream
  /\ callResult.done
  /\ Len(callResult.yielded) = 3
  /\ Len(callResult.yielded[3]) < chunkSize


\* C18: for each cache key at most one pipeline is ever constructed, also when
\* two requests first use the model at the same time, and every load that
\* returns an instance returns the one the cache holds.
C18_PipelineBuiltOnce ==
  /\ \A k \in CacheKeys : built[k] <= 1
  /\ \A r \in Loaders : loader[r].at = "done" => loader[r].got = cache[loader[r].key]


\* C19: handling a generation request stores nothing derived from its prompt
\* or its response in process-wide state: the rule-based model's singleton
\* keeps no entry of any request.
C19_NoRequestStateKept == context = <<>>


Occurs(notice, text) ==
  /\ notice # <<>>
  /\ \E o \in 1..Len(text) :
       o + Len(notice) - 1 <= Len(text) /\ SubSeq(text, o, o + Len(notice) - 1) = notice

FirstAt(notice, text) ==
  CHOOSE o \in 1..Len(text) :
    /\ o + Len(notice) - 1 <= Len(text) /\ SubSeq(text, o, o + Len(notice) - 1) = notice
    /\ \A q \in 1..(o - 1) : SubSeq(text, q, q + Len(notice) - 1) # notice

\* the resolved descriptor's static notice comes first in the text or right
\* after the caller's notice, so no dynamic notice precedes it
StaticAfterCallerOnly ==
  LET static == Trim(NoticeOf(variant, result.model))
      caller == Trim(req.options.notice)
  IN Occurs(static, result.text) =>
       SubSeq(result.text, 1, FirstAt(static, result.text) - 1)
         \in {<<>>, caller \o <<"\n\n">>}

NoNoticeRepeated ==
  /\ \A i \in DOMAIN result.notices : ~Occurs(result.notices[i], result.text)
  /\ \A i, j \in DOMAIN result.notices : i # j => result.notices[i] # result.notices[j]

\* C20: in a returned result the caller's notices come first, then the
\* resolved descriptor's static notice, then the notices generated during
\* fallback, and no notice text occurs twice in the result.
C20_NoticeOrderNoRepeat ==
  (Completed /\ outcome = "result" /\ ~result.promise) =>
     StaticAfterCallerOnly /\ NoNoticeRepeated


\* C21: on every return path of generateText and chat the result's model is
\* a key of the model registry and its modelInfo is the registry's descriptor
\* of that key.
C21_ResultModelIsRegistered ==
  (Completed /\ outcome = "result" /\ req.entry \in {"generateText", "chat"}) =>
     /\ result.model \in DOMAIN AVAILABLE_MODELS(variant)
     /\ result.modelInfo = result.model


RuleBasedRequested ==
  TypeOf(variant, IF Registered(variant, req.modelId) THEN req.modelId ELSE defaultModel(variant))
    = "local"

\* C27: chat() with a rule-based model returns a result whose message is a
\* string, for every message list: without a user message, or with a last
\* user message that is empty or blank, too.
C27_LocalChatMessageIsString ==
  (Completed /\ req.entry = "chat" /\ RuleBasedRequested) =>
     /\ outcome = "result"
     /\ ~result.promise


\* the keywords of a category that occur in the lower-cased input, each once
Matched(category, userInput) ==
  {category.keywords[k] : k \in {j \in DOMAIN category.keywords :
                                    includes(toLowerCase(userInput), category.keywords[j])}}

Scored(i, userInput) ==
  INTENT_CATEGORIES[i].priority * Cardinality(Matched(INTENT_CATEGORIES[i], userInput))

Highest(userInput) ==
  {i \in DOMAIN INTENT_CATEGORIES :
     \A j \in DOMAIN INTENT_CATEGORIES : Scored(j, userInput) <= Scored(i, userInput)}

IntentReturned == callArgs.fn = "detectIntent" /\ callResult # NoCallResult

\* C22: detectIntent returns the category of highest score, a score being
\* the priority summed once per keyword that occurs in the lower-cased input;
\* of several categories with the highest score the first declared wins, and
\* CHAT is returned when every score is zero.
C22_HighestScoreFirstDeclared ==
  IntentReturned =>
    LET top == Highest(callArgs.userInput)
        first == CHOOSE i \in top : \A j \in top : i <= j
    IN callResult.intent =
         IF Scored(first, callArgs.userInput) = 0 THEN "CHAT" ELSE INTENT_CATEGORIES[first].key

C22_Witness ==
  /\ IntentReturned
  /\ Cardinality(Highest(callArgs.userInput)) >= 2
  /\ \E i \in Highest(callArgs.userInput) : Scored(i, callArgs.userInput) > 0
  /\ callResult.intent # "CHAT"


\* the empty value of a field's type: [] for messages, '' for the others
EmptyOf(field) == IF field = "messages" THEN "[]" ELSE "''"

Absent(field, v) == v = "undefined" \/ v = EmptyOf(field)

\* what the endpoint requires is missing or empty: one of its required
\* fields, or every one of the alternatives it accepts
Lacking(endpoint, fieldsOf) ==
  IF endpoint.rule = "any"
    THEN \A f \in endpoint.fields : Absent(f, fieldsOf[f])
    ELSE \E f \in endpoint.fields : Absent(f, fieldsOf[f])

Answered == callArgs.fn = "POST" /\ callResult # NoCallResult

\* C23: a POST endpoint that requires a body field answers a request in
\* which the field is missing or empty with 400, and calls no collaborator.
C23_MissingFieldIs400 ==
  (Answered /\ Lacking(callArgs.endpoint, callArgs.fieldsOf)) =>
     /\ callResult.status = 400
     /\ callResult.called = <<>>

C23_Witness ==
  /\ Answered
  /\ callArgs.endpoint.path = "/api/v1/assistant/document"
  /\ callArgs.fieldsOf["type"] = "'x'"
  /\ callArgs.fieldsOf["content"] = "''"
  /\ callResult.status = 400


\* C24: every accepted /api/v1/chat/stream request ends its response, also
\* when the augmentation stage raises after the first frame was written: a
\* handler that is through the request has ended the response.
C24_StreamResponseEnds ==
  (body.route = "stream" /\ hpc = "done") => ended


OllamaStreamOver == callArgs.fn = "ollamaStream" /\ callResult.status # "open"

\* C25: when a line of the daemon's NDJSON stream carries an error field,
\* generateStream fails the stream instead of returning as after a success.
C25_ErrorLineFailsStream ==
  (OllamaStreamOver /\ "!" \in Range(callArgs.lines)) => callResult.status = "failed"

\* C26: however the byte stream is cut into transport chunks, the fragments
\* generateStream yields are, in order, the message.content of the lines sent.
C26_ChunkingKeepsContent ==
  OllamaStreamOver =>
    callResult.yielded = SelectSeq(callArgs.lines, LAMBDA tag : tag \in {"a", "b"})


NeuralModels == {"local/aakarsh", "local/assistant-10m"}

NeuralResponse(modelId, prompt) ==
  IF modelId = "local/aakarsh" THEN generateAakarshNeuralResponse(prompt)
  ELSE generateLocalNeuralResponse(prompt)

NeuralCall ==
  /\ callResult.kind = "done"
  /\ callArgs.fn = "generateWithLocalModel"
  /\ callArgs.prompt.type = "string"
  /\ callArgs.modelId \in NeuralModels
  /\ Registered(variant, callArgs.modelId)
  /\ ~runLocalSafetyChecks(callArgs.prompt.str).blocked

\* C28: for local/aakarsh and local/assistant-10m and a prompt the safety
\* filter lets through, generateWithLocalModel returns the caller's and the
\* model's inline notices followed by the text of that model's neural
\* response generator for the prompt.
C28_NeuralResponseReturned ==
  NeuralCall =>
    callResult.res.text =
      composeContent(NeuralResponse(callArgs.modelId, callArgs.prompt.str),
                     prepareNotices(variant, callArgs.modelId, callArgs.options).inline)


\* the credentials of the stored configurations as their clients typed them
PlainCredentials ==
  {decrypt(configs[i].credentials[k]) : i \in DOMAIN configs, k \in CredentialKeys} \ {<<>>, <<"user">>}

\* the credential values and parameter values a response body carries
BodyTexts(b) ==
  IF b = NoBodySent THEN {}
  ELSE {b.config.credentials[k] : k \in CredentialKeys}
         \cup {b.apis[i].credentials[k] : i \in DOMAIN b.apis, k \in CredentialKeys}
         \cup {e[2] : e \in b.plan.params.entries}

\* C29: after any sequence of configure, list, get and query operations no
\* response body carries a decrypted credential of a configured API; the
\* plan echoed by /api/v1/external-api/query carries no API key.
C29_NoPlainCredentialSent == BodyTexts(sent) \cap PlainCredentials = {}


\* the requests received whose response has neither finished nor been aborted
InFlight == {r \in Requests : conns[r] \in {"open", "hung"}}

\* C30: the activeConnections gauge equals the number of requests received
\* whose response has neither finished nor been aborted; it is never
\* negative and is back at its initial value whenever no request is in
\* flight, also after a client disconnected before the response completed.
C30_GaugeCountsInFlight ==
  /\ activeConnections >= 0
  /\ activeConnections = Cardinality(InFlight)

====
